---- MODULE Spec2Model ----
(***************************************************************************)
(* Model of the AI service core: the prompt template store and renderer    *)
(* (PromptTemplateService), the OpenAI adapter (OpenAIService) and the     *)
(* provider orchestrator (AIProviderService).                              *)
(*                                                                         *)
(* Strings that take part in rendering are modelled as sequences of        *)
(* tokens: a chunk of plain text, a placeholder "{{name}}", or one of the  *)
(* two-character sequences (dollar followed by an ampersand, a dollar, a   *)
(* back quote or a quote) that String.prototype.replace interprets inside  *)
(* a replacement string.                                                   *)
(* Numbers with one decimal (temperatures) are scaled by 10, money is in   *)
(* millionths of a dollar.                                                 *)
(***************************************************************************)
EXTENDS Integers, Sequences, FiniteSets, TLC

VARIABLES
    templates,        \* PromptTemplateService.templates: the Map, as its entries in insertion order
    defaultProvider,  \* AIProviderService.defaultProvider
    defaultModel,     \* OpenAIService.defaultModel
    pricing,          \* OpenAIService.pricing: the price table
    last,             \* the most recent call on the service API: its arguments and its outcome
    inflight,         \* the invocations that run concurrently: where each is, its input and outcome
    sent,             \* the requests the backend received for each of these invocations
    health,           \* the health endpoint's run: the validations it started and how each settled
    db,               \* the DB service's store: the conversations, the messages, the writes it applied
    ops,              \* the ConversationsService calls in progress: where each is and its outcome
    metrics           \* PrometheusService: the token counter, the request counter, the histogram

vars == <<templates, defaultProvider, defaultModel, pricing, last, inflight, sent,
          health, db, ops, metrics>>

(***************************************************************************)
(* Bounds of the model.                                                    *)
(***************************************************************************)
MaxHist == 12     \* longest conversation history passed to an operation
MaxTok == 7       \* largest token count a backend reply reports
MaxCalls == 3     \* invocations that run concurrently
MaxOps == 2       \* ConversationsService calls that run concurrently
MaxRequests == 2  \* HTTP requests that pass the metrics interceptor

(***************************************************************************)
(* Text.                                                                   *)
(***************************************************************************)
Lit(s) == [k |-> "lit", v |-> s]        \* plain text
Ph(n) == [k |-> "ph", v |-> n]          \* the text "{{n}}"
\* a dollar sign followed by: an ampersand ("match"), a dollar ("dollar"),
\* a back quote ("before") or a quote ("after")
Dollar(c) == [k |-> "dollar", v |-> c]

Has(o, f) == f \in DOMAIN o

\* { ...o, f: v }
With(o, f, v) == [k \in DOMAIN o \cup {f} |-> IF k = f THEN v ELSE o[k]]

Min(a, b) == IF a <= b THEN a ELSE b
Max(a, b) == IF a >= b THEN a ELSE b

\* Array.prototype.slice(-n), n > 0
SliceLast(s, n) == SubSeq(s, Max(1, Len(s) - n + 1), Len(s))

RECURSIVE Flatten(_)
Flatten(ss) == IF ss = <<>> THEN <<>> ELSE Head(ss) \o Flatten(Tail(ss))

\* Array.prototype.join(sep) of an array of texts
RECURSIVE Join(_, _)
Join(ss, sep) ==
    IF ss = <<>> THEN <<>>
    ELSE IF Len(ss) = 1 THEN Head(ss)
    ELSE Head(ss) \o sep \o Join(Tail(ss), sep)

HasPlaceholder(text) == \E i \in 1..Len(text) : text[i].k = "ph"

\* JavaScript truthiness of a string value: "" is falsy
Truthy(text) == text # <<>>

\* The text a replacement string stands for at the match at position i of s:
\* dollar-dollar is one dollar sign, dollar-ampersand the matched text,
\* dollar-backquote the text before the match and dollar-quote the text
\* after it; everything else stands for itself.
ExpandReplacement(value, s, i) ==
    Flatten([j \in 1..Len(value) |->
        IF value[j].k = "dollar"
        THEN CASE value[j].v = "dollar" -> <<Lit("$")>>
               [] value[j].v = "match" -> <<s[i]>>
               [] value[j].v = "before" -> SubSeq(s, 1, i - 1)
               [] OTHER -> SubSeq(s, i + 1, Len(s))
        ELSE <<value[j]>>])

\* s.replace(new RegExp("{{name}}", "g"), value): every occurrence in s is
\* replaced, and the text inserted is not scanned again.
ReplaceAll(s, name, value) ==
    Flatten([i \in 1..Len(s) |->
        IF s[i] = Ph(name) THEN ExpandReplacement(value, s, i) ELSE <<s[i]>>])

\* new RegExp("{{" + name + "}}", "g") is a syntax error for a name with an
\* unbalanced parenthesis.
ValidRegExp(name) == name \notin {"(", ")"}

(***************************************************************************)
(* Errors.                                                                 *)
(***************************************************************************)
HttpException(status, message) == [type |-> "HttpException", status |-> status, message |-> message]
PlainError(message) == [type |-> "Error", message |-> message]
TypeError == [type |-> "TypeError", message |-> "Cannot read properties of undefined"]
SyntaxError == [type |-> "SyntaxError", message |-> "Invalid regular expression"]
APIError == [type |-> "APIError", message |-> "upstream detail"]

\* HttpExceptionFilter.catch: the status of the response for an exception
FilterStatus(error) == IF error.type = "HttpException" THEN error.status ELSE 500

Ok(value) == [ok |-> TRUE, value |-> value]
Throw(error) == [ok |-> FALSE, error |-> error]

(***************************************************************************)
(* Template store (PromptTemplateService).  A template is a record with    *)
(* the fields id, name, template (the body), variables and category; a     *)
(* template whose variables field is undefined has no such field.          *)
(***************************************************************************)
Template(id, name, body, variables, category) ==
    [id |-> id, name |-> name, template |-> body, variables |-> variables, category |-> category]

\* The six templates initializeDefaultTemplates registers, in its order.  The
\* text between two placeholders is one chunk.
DefaultTemplates ==
    << Template("conversation_tutor", "Language Tutor",
           << Lit("You are a friendly and encouraging "), Ph("language"), Lit(" language tutor at a "),
              Ph("level"), Lit(" level; never studied "), Ph("language"), Lit("; previous conversation: "),
              Ph("conversationHistory"), Lit("; student's message: "), Ph("userMessage"),
              Lit("; respond as a tutor at the "), Ph("level"), Lit(" level") >>,
           <<"language", "level", "conversationHistory", "userMessage">>, "conversation"),
       Template("conversation_friend", "Conversation Partner",
           << Lit("You are a friendly conversation partner for "), Ph("language"), Lit("; adapt to the "),
              Ph("level"), Lit(" level; first "), Ph("language"), Lit(" words; context: "),
              Ph("conversationHistory"), Lit("; their message: "), Ph("userMessage"),
              Lit("; match the "), Ph("level"), Lit(" complexity") >>,
           <<"language", "level", "conversationHistory", "userMessage">>, "conversation"),
       Template("grammar_correction", "Grammar Correction",
           << Lit("Analyze the following "), Ph("language"), Lit(" text for errors; text: "), Ph("text"),
              Lit("; level: "), Ph("level"), Lit("; explanation adapted to "), Ph("level"), Lit(" level") >>,
           <<"language", "text", "level">>, "correction"),
       Template("style_improvement", "Style Improvement",
           << Lit("Analyze and improve the writing style of this "), Ph("language"), Lit(" text: "),
              Ph("text"), Lit("; consider the "), Ph("level"), Lit(" level") >>,
           <<"language", "text", "level">>, "correction"),
       Template("vocabulary_analysis", "Vocabulary Analysis",
           << Lit("Analyze the vocabulary usage in this "), Ph("language"), Lit(" text: "), Ph("text"),
              Lit("; for a "), Ph("level"), Lit(" level learner") >>,
           <<"language", "text", "level">>, "analysis"),
       Template("conversation_starter", "Conversation Starter",
           << Lit("Generate conversation starters for a "), Ph("level"), Lit(" level "), Ph("language"),
              Lit(" learner; topic interests: "), Ph("topics"), Lit("; appropriate for "), Ph("level"),
              Lit(" level") >>,
           <<"level", "language", "topics">>, "system") >>

\* Map.prototype.set: an existing key keeps its position, a new one goes last
MapSet(entries, t) ==
    IF \E i \in 1..Len(entries) : entries[i].id = t.id
    THEN [i \in 1..Len(entries) |-> IF entries[i].id = t.id THEN t ELSE entries[i]]
    ELSE Append(entries, t)

MapHas(entries, id) == \E i \in 1..Len(entries) : entries[i].id = id

\* Map.prototype.get for a key the map has
MapGet(entries, id) == entries[CHOOSE i \in 1..Len(entries) : entries[i].id = id]

\* the value of Map.prototype.get for a key the map does not have
Undefined == [type |-> "undefined"]

\* getTemplate
GetTemplate(entries, id) == IF MapHas(entries, id) THEN MapGet(entries, id) ELSE Undefined

\* getTemplatesByCategory that lists the newest entry first
GetTemplatesByCategoryNewestFirst(entries, category) ==
    LET found == SelectSeq(entries, LAMBDA t : Has(t, "category") /\ t.category = category)
    IN  [i \in 1..Len(found) |-> found[Len(found) + 1 - i]]

\* getTemplatesByCategory: the values of the Map in its order, filtered
GetTemplatesByCategory(entries, category) ==
    SelectSeq(entries, LAMBDA t : Has(t, "category") /\ t.category = category)

\* addTemplate that leaves an id alone once it is registered
AddTemplateIfAbsent(entries, t) == IF MapHas(entries, t.id) THEN entries ELSE Append(entries, t)

\* addTemplate: no validation, the entry is set whatever the template is
AddTemplateStore(entries, t) == MapSet(entries, t)

\* formatConversationHistory with slice(0, 5): the first five messages
FormatConversationHistoryFirstFive(messages) ==
    IF Len(messages) = 0
    THEN <<Lit("No previous conversation.")>>
    ELSE Join([i \in 1..Min(5, Len(messages)) |->
                  <<Lit(IF messages[i].role = "user" THEN "Student: " ELSE "Tutor: ")>>
                      \o messages[i].content],
              <<Lit("\n")>>)

\* formatConversationHistory
FormatConversationHistory(messages) ==
    IF Len(messages) = 0
    THEN <<Lit("No previous conversation.")>>
    ELSE Join([i \in 1..Len(SliceLast(messages, 5)) |->
                  LET msg == SliceLast(messages, 5)[i]
                  IN  <<Lit(IF msg.role = "user" THEN "Student: " ELSE "Tutor: ")>> \o msg.content],
              <<Lit("\n")>>)

\* context.f of an optional field f: the empty string stands for undefined,
\* the two are the same to every use the renderer makes of a field (f || d)
Field(context, f) == IF f \in DOMAIN context THEN context[f] ELSE <<>>

\* context.additionalContext?.[name]
Additional(context, name) ==
    IF "additionalContext" \in DOMAIN context /\ name \in DOMAIN context.additionalContext
    THEN context.additionalContext[name]
    ELSE <<>>

OrElse(text, default) == IF Truthy(text) THEN text ELSE default

\* the switch of renderTemplate: the value substituted for a declared variable
VariableValue(variable, context) ==
    CASE variable = "language" -> OrElse(Field(context, "language"), <<Lit("English")>>)
      [] variable = "level" -> OrElse(Field(context, "level"), <<Lit("intermediate")>>)
      [] variable = "userMessage" -> Field(context, "userMessage")
      [] variable = "conversationHistory" ->
             FormatConversationHistory(IF "conversationHistory" \in DOMAIN context
                                       THEN context.conversationHistory ELSE <<>>)
      [] variable = "text" -> Field(context, "userMessage")
      [] variable = "topics" -> OrElse(Additional(context, "topics"), <<Lit("general conversation")>>)
      [] OTHER -> Additional(context, variable)

\* the forEach loop of renderTemplate over the declared variables, in order
RECURSIVE RenderVariables(_, _, _)
RenderVariables(rendered, variables, context) ==
    IF variables = <<>> THEN Ok(rendered)
    ELSE IF ~ValidRegExp(Head(variables)) THEN Throw(SyntaxError)
    ELSE RenderVariables(ReplaceAll(rendered, Head(variables), VariableValue(Head(variables), context)),
                         Tail(variables), context)

\* renderTemplate that renders an unknown id as the empty string
RenderTemplateLenient(entries, templateId, context) ==
    IF ~MapHas(entries, templateId)
    THEN Ok(<<>>)
    ELSE LET template == MapGet(entries, templateId)
         IN  IF "variables" \notin DOMAIN template
             THEN Throw(TypeError)
             ELSE RenderVariables(template.template, template.variables, context)

\* renderTemplate
RenderTemplate(entries, templateId, context) ==
    IF ~MapHas(entries, templateId)
    THEN Throw(PlainError("Template not found"))
    ELSE LET template == MapGet(entries, templateId)
         IN  IF "variables" \notin DOMAIN template
             THEN Throw(TypeError)
             ELSE RenderVariables(template.template, template.variables, context)

\* String.prototype.trim() === "" for a non-empty string
Blank(text) == \A i \in 1..Len(text) : text[i].k = "lit" /\ text[i].v \in {"", " "}

\* names the pattern \w+ does not match
NonWordNames == {"(", ")", "first-name"}

\* extractVariablesFromTemplate: the names of the placeholders the pattern
\* {{(\w+)}} finds, each once, in the order of their first occurrence
RECURSIVE ExtractVariablesFromTemplate(_)
ExtractVariablesFromTemplate(body) ==
    IF body = <<>> THEN <<>>
    ELSE LET front == ExtractVariablesFromTemplate(SubSeq(body, 1, Len(body) - 1))
             t == body[Len(body)]
         IN  IF t.k = "ph" /\ t.v \notin NonWordNames
                           /\ ~\E i \in 1..Len(front) : front[i] = t.v
             THEN Append(front, t.v)
             ELSE front

ValidationError(message) == [message |-> message, variables |-> <<>>]

\* the checks of validateTemplate that come before the placeholders are read
FieldErrors(template) ==
    (IF ~Has(template, "id") \/ template.id = "" \/ template.id = " "
     THEN <<ValidationError("Template ID is required")>> ELSE <<>>)
    \o (IF ~Has(template, "name") \/ template.name = "" \/ template.name = " "
        THEN <<ValidationError("Template name is required")>> ELSE <<>>)
    \o (IF ~Has(template, "template") \/ template.template = <<>> \/ Blank(template.template)
        THEN <<ValidationError("Template content is required")>> ELSE <<>>)
    \o (IF ~Has(template, "variables")
        THEN <<ValidationError("Template variables must be an array")>> ELSE <<>>)

\* validateTemplate: template.template.matchAll of an undefined body and
\* template.variables.includes of undefined variables are TypeErrors
ValidateTemplate(template) ==
    IF ~Has(template, "template") THEN Throw(TypeError)
    ELSE IF ExtractVariablesFromTemplate(template.template) # <<>> /\ ~Has(template, "variables")
    THEN Throw(TypeError)
    ELSE LET undeclared ==
                 IF ExtractVariablesFromTemplate(template.template) = <<>> THEN <<>>
                 ELSE SelectSeq(ExtractVariablesFromTemplate(template.template),
                                LAMBDA v : ~\E i \in 1..Len(template.variables) :
                                               template.variables[i] = v)
         IN  Ok(FieldErrors(template) \o
                 (IF undeclared # <<>>
                  THEN <<[message |-> "Undeclared variables found", variables |-> undeclared]>>
                  ELSE <<>>))

(***************************************************************************)
(* OpenAI adapter (OpenAIService).                                         *)
(***************************************************************************)
DefaultTemperature == 7     \* 0.7
DefaultMaxTokens == 1000

\* the price table as constructed: dollars per million tokens, in cents
Pricing ==
    [m \in {"gpt-4o-mini", "gpt-4o", "gpt-4", "gpt-3.5-turbo"} |->
        CASE m = "gpt-4o-mini" -> [input |-> 15, output |-> 60]
          [] m = "gpt-4o" -> [input |-> 250, output |-> 1000]
          [] m = "gpt-4" -> [input |-> 3000, output |-> 6000]
          [] OTHER -> [input |-> 50, output |-> 150]]

\* calculateCost with a model that has no price billed at the gpt-4o-mini price
CalculateCostFallbackPrice(model, promptTokens, completionTokens, tieUp) ==
    LET price == IF model \in DOMAIN Pricing THEN Pricing[model] ELSE Pricing["gpt-4o-mini"]
        hundredths == promptTokens * price.input + completionTokens * price.output
    IN  IF hundredths % 100 = 50 /\ ~tieUp
        THEN hundredths \div 100
        ELSE (hundredths + 50) \div 100

\* calculateCost, in millionths of a dollar.  Number(x.toFixed(6)) rounds the
\* double x to the nearest millionth; where the exact sum lies halfway between
\* two millionths the double lies just below or at the half, so both
\* neighbours occur: tieUp says which way this evaluation goes.
CalculateCost(model, promptTokens, completionTokens, tieUp) ==
    IF model \notin DOMAIN pricing
    THEN 0
    ELSE LET hundredths == promptTokens * pricing[model].input
                           + completionTokens * pricing[model].output
         IN  IF hundredths % 100 = 50 /\ ~tieUp
             THEN hundredths \div 100
             ELSE (hundredths + 50) \div 100

\* the request with "options.temperature || 0.7": a temperature of 0 is lost
CompletionRequestFalsyTemperature(messages, options) ==
    [model |-> IF Has(options, "model") /\ options.model # "" THEN options.model ELSE defaultModel,
     messages |-> [i \in 1..Len(messages) |-> [role |-> messages[i].role, content |-> messages[i].content]],
     temperature |-> IF Has(options, "temperature") /\ options.temperature # 0
                     THEN options.temperature ELSE DefaultTemperature,
     max_tokens |-> IF Has(options, "maxTokens") THEN options.maxTokens ELSE DefaultMaxTokens]

\* the argument of openai.chat.completions.create
CompletionRequest(messages, options) ==
    [model |-> IF Has(options, "model") /\ options.model # "" THEN options.model ELSE defaultModel,
     messages |-> [i \in 1..Len(messages) |-> [role |-> messages[i].role, content |-> messages[i].content]],
     temperature |-> IF Has(options, "temperature") THEN options.temperature ELSE DefaultTemperature,
     max_tokens |-> IF Has(options, "maxTokens") THEN options.maxTokens ELSE DefaultMaxTokens]

\* the AICompletionResponse built from the backend's reply
CompletionResponse(reply) ==
    LET base == [content |-> IF Has(reply, "content") THEN reply.content ELSE <<>>,
                 model |-> reply.model,
                 provider |-> "openai",
                 cost |-> IF Has(reply, "usage")
                          THEN CalculateCost(reply.model, reply.usage.prompt_tokens,
                                             reply.usage.completion_tokens, reply.tieUp)
                          ELSE 0]
        withUsage == IF Has(reply, "usage")
                     THEN With(base, "usage", [promptTokens |-> reply.usage.prompt_tokens,
                                               completionTokens |-> reply.usage.completion_tokens,
                                               totalTokens |-> reply.usage.total_tokens])
                     ELSE base
    IN  IF Has(reply, "finish_reason") THEN With(withUsage, "finishReason", reply.finish_reason)
        ELSE withUsage

\* generateCompletion: one request to the backend, whose reply (or failure)
\* is the argument reply; a failure is logged and thrown again as it is.
\* calls lists the backend requests made, each with the arguments of the call.
GenerateCompletion(messages, options, reply) ==
    LET call == [messages |-> messages, options |-> options,
                 request |-> CompletionRequest(messages, options)]
    IN  IF reply.kind = "error"
        THEN [ok |-> FALSE, error |-> APIError, calls |-> <<call>>]
        ELSE [ok |-> TRUE, value |-> CompletionResponse(reply), calls |-> <<call>>]

\* the adapter's generateChatResponse: a system message is put in front when
\* systemPrompt is a non-empty string ("" stands for no argument as well)
OpenAIGenerateChatResponse(messages, systemPrompt, options, reply) ==
    GenerateCompletion((IF Truthy(systemPrompt) THEN <<[role |-> "system", content |-> systemPrompt]>>
                        ELSE <<>>) \o messages,
                       options, reply)

(***************************************************************************)
(* Orchestrator (AIProviderService).                                       *)
(***************************************************************************)
\* provider selection that ignores options.provider
SelectProviderDefaultOnly(options) == defaultProvider

\* options?.provider || this.defaultProvider
SelectProvider(options) ==
    IF Has(options, "provider") /\ options.provider # "" THEN options.provider ELSE defaultProvider

\* the catch block of generateChatResponse and of analyzeText
Normalize(error, message) ==
    IF error.type = "HttpException" THEN error ELSE HttpException(500, message)

UnsupportedProvider(provider) ==
    With(HttpException(400, "Unsupported AI provider"), "provider", provider)

\* generateChatResponse; chat records the arguments it was called with
GenerateChatResponse(messages, options, reply) ==
    LET chat == [messages |-> messages, options |-> options]
    IN  IF SelectProvider(options) = "openai"
        THEN LET r == GenerateCompletion(messages, options, reply)
             IN  IF r.ok THEN With(r, "chat", chat)
                 ELSE [ok |-> FALSE, error |-> Normalize(r.error, "Failed to generate AI response"),
                       calls |-> r.calls, chat |-> chat]
        ELSE [ok |-> FALSE,
              error |-> Normalize(UnsupportedProvider(SelectProvider(options)),
                                  "Failed to generate AI response"),
              calls |-> <<>>, chat |-> chat]

Message(role, content) == [role |-> role, content |-> content]

\* the PromptContext generateTutorResponse and
\* generateConversationPartnerResponse build
ConversationPromptContext(userMessage, conversationHistory, context) ==
    [userMessage |-> userMessage,
     conversationHistory |-> conversationHistory,
     language |-> OrElse(Field(context, "language"), <<Lit("English")>>),
     level |-> OrElse(Field(context, "level"), <<Lit("intermediate")>>)]

\* the tutor's message list with slice(0, 10): the first ten messages
TutorMessagesFirstTen(systemPrompt, conversationHistory, userMessage) ==
    <<Message("system", systemPrompt)>>
        \o SubSeq(conversationHistory, 1, Min(10, Len(conversationHistory)))
        \o <<Message("user", userMessage)>>

\* the message list of generateTutorResponse
TutorMessages(systemPrompt, conversationHistory, userMessage) ==
    <<Message("system", systemPrompt)>> \o SliceLast(conversationHistory, 10)
        \o <<Message("user", userMessage)>>

\* the partner's message list with the tutor's window of ten
PartnerMessagesTen(systemPrompt, conversationHistory, userMessage) ==
    <<Message("system", systemPrompt)>> \o SliceLast(conversationHistory, 10)
        \o <<Message("user", userMessage)>>

\* the message list of generateConversationPartnerResponse
PartnerMessages(systemPrompt, conversationHistory, userMessage) ==
    <<Message("system", systemPrompt)>> \o SliceLast(conversationHistory, 8)
        \o <<Message("user", userMessage)>>

\* generateTutorResponse: whatever is thrown is logged and thrown again
GenerateTutorResponse(userMessage, conversationHistory, context, options, reply) ==
    LET r == RenderTemplate(templates, "conversation_tutor",
                            ConversationPromptContext(userMessage, conversationHistory, context))
    IN  IF ~r.ok THEN [ok |-> FALSE, error |-> r.error, calls |-> <<>>]
        ELSE GenerateChatResponse(TutorMessages(r.value, conversationHistory, userMessage),
                                  options, reply)

\* generateConversationPartnerResponse
GenerateConversationPartnerResponse(userMessage, conversationHistory, context, options, reply) ==
    LET r == RenderTemplate(templates, "conversation_friend",
                            ConversationPromptContext(userMessage, conversationHistory, context))
    IN  IF ~r.ok THEN [ok |-> FALSE, error |-> r.error, calls |-> <<>>]
        ELSE GenerateChatResponse(PartnerMessages(r.value, conversationHistory, userMessage),
                                  With(options, "temperature", 8), reply)

AnalysisTemplateId(analysisType) ==
    CASE analysisType = "grammar" -> "grammar_correction"
      [] analysisType = "style" -> "style_improvement"
      [] analysisType = "vocabulary" -> "vocabulary_analysis"
      [] OTHER -> ""

\* { temperature: 0.3, ...options }: the caller's temperature wins
AnalysisOptionsCallerWins(options) ==
    IF Has(options, "temperature") THEN options ELSE With(options, "temperature", 3)

\* the options analyzeText hands to the adapter
AnalysisOptions(options) == With(options, "temperature", 3)

\* the options generateConversationStarters hands to generateChatResponse
StarterOptions(options) == With(options, "temperature", 8)

\* analyzeText
AnalyzeText(text, analysisType, context, options, reply) ==
    LET promptContext ==
            [userMessage |-> text,
             language |-> OrElse(Field(context, "language"), <<Lit("English")>>),
             level |-> OrElse(Field(context, "level"), <<Lit("intermediate")>>),
             additionalContext |->
                 [text |-> text, level |-> OrElse(Field(context, "level"), <<Lit("intermediate")>>)]]
        r == RenderTemplate(templates, AnalysisTemplateId(analysisType), promptContext)
    IN  IF AnalysisTemplateId(analysisType) = ""
        THEN [ok |-> FALSE,
              error |-> Normalize(HttpException(400, "Unsupported analysis type"), "Failed to analyze text"),
              calls |-> <<>>]
        ELSE IF ~r.ok
        THEN [ok |-> FALSE, error |-> Normalize(r.error, "Failed to analyze text"), calls |-> <<>>]
        ELSE IF SelectProvider(options) = "openai"
        THEN LET c == GenerateCompletion(<<Message("user", r.value)>>, AnalysisOptions(options), reply)
             IN  IF c.ok THEN c
                 ELSE [ok |-> FALSE, error |-> Normalize(c.error, "Failed to analyze text"),
                       calls |-> c.calls]
        ELSE [ok |-> FALSE,
              error |-> Normalize(UnsupportedProvider(SelectProvider(options)), "Failed to analyze text"),
              calls |-> <<>>]

\* generateConversationStarters
GenerateConversationStarters(context, options, reply) ==
    LET promptContext ==
            [language |-> OrElse(Field(context, "language"), <<Lit("English")>>),
             level |-> OrElse(Field(context, "level"), <<Lit("intermediate")>>),
             additionalContext |->
                 [topics |-> OrElse(Field(context, "topics"),
                                    <<Lit("general conversation, daily life, hobbies, travel")>>)]]
        r == RenderTemplate(templates, "conversation_starter", promptContext)
    IN  IF ~r.ok THEN [ok |-> FALSE, error |-> r.error, calls |-> <<>>]
        ELSE GenerateChatResponse(<<Message("user", r.value)>>, StarterOptions(options), reply)

\* the options of the test request of validateProviderConnection
TestOptions(provider) ==
    [provider |-> IF provider # "" THEN provider ELSE defaultProvider,
     maxTokens |-> 10, temperature |-> 0]

TestMessages == <<Message("user", <<Lit("Hello, this is a connection test.")>>)>>

\* validateProviderConnection whose catch block throws the failure again
ValidateProviderConnectionRethrows(provider, reply) ==
    LET r == GenerateChatResponse(TestMessages, TestOptions(provider), reply)
    IN  IF r.ok THEN [ok |-> TRUE, value |-> TRUE, calls |-> r.calls]
        ELSE [ok |-> FALSE, error |-> r.error, calls |-> r.calls]

\* validateProviderConnection; provider "" stands for no argument
ValidateProviderConnection(provider, reply) ==
    LET r == GenerateChatResponse(TestMessages, TestOptions(provider), reply)
    IN  [ok |-> TRUE, value |-> r.ok, calls |-> r.calls]

\* getAvailableModels; provider "" stands for no argument
GetAvailableModels(provider) ==
    IF (IF provider # "" THEN provider ELSE defaultProvider) = "openai"
    THEN <<"gpt-4o-mini", "gpt-4o", "gpt-4-turbo", "gpt-4", "gpt-3.5-turbo", "gpt-3.5-turbo-16k">>
    ELSE <<>>

(***************************************************************************)
(* Inputs of the calls.                                                    *)
(***************************************************************************)
\* message texts: plain, empty, a dollar-ampersand, text holding "{{level}}"
UserTexts ==
    { <<Lit("hello")>>, <<>>, <<Dollar("match")>>, <<Lit("about "), Ph("level")>> }

\* a conversation of n messages, each with its own content; shape 1 alternates
\* user and assistant, shape 2 starts with the assistant and ends with a
\* system message
History(n, shape) ==
    [i \in 1..n |->
        [role |-> IF shape = 2 /\ i = n THEN "system"
                  ELSE IF (i + shape) % 2 = 0 THEN "user" ELSE "assistant",
         content |-> <<Lit("m" \o ToString(i))>>,
         timestamp |-> i]]

Histories ==
    {History(n, 1) : n \in 0..MaxHist} \cup {History(n, 2) : n \in {3, MaxHist}}

\* the language/level/topics argument of the orchestrator's operations
CallContexts ==
    { <<>>,
      [language |-> <<Lit("French")>>, level |-> <<Lit("beginner")>>],
      [level |-> <<Lit("advanced")>>, topics |-> <<Lit("food")>>] }

\* the user message and the context of a tutor or partner call, the text
\* and the context of an analysis
ConversationInputs ==
    { [text |-> <<Lit("hello")>>, context |-> <<>>],
      [text |-> <<Dollar("match")>>,
       context |-> [language |-> <<Lit("French")>>, level |-> <<Lit("beginner")>>]],
      [text |-> <<Lit("about "), Ph("level")>>, context |-> [level |-> <<Lit("advanced")>>]] }

\* AICompletionOptions & { provider }: undefined or {} is the empty record
OptionsSet ==
    { <<>>,
      [temperature |-> 0],
      [temperature |-> 3, maxTokens |-> 500],
      [temperature |-> 8, model |-> "gpt-4"],
      [temperature |-> 20, maxTokens |-> 1],
      [model |-> ""],
      [model |-> "gpt-4o", maxTokens |-> 4000],
      [provider |-> "openai", temperature |-> 15],
      [provider |-> "anthropic"],
      [provider |-> "anthropic", temperature |-> 8, model |-> "gpt-4o"] }

Usage(p, c) == [prompt_tokens |-> p, completion_tokens |-> c, total_tokens |-> p + c]

\* what the backend does with a request: it fails, or it replies
Replies ==
    { [kind |-> "error"],
      [kind |-> "ok", model |-> "gpt-4o-mini-2024-07-18"],
      [kind |-> "ok", model |-> "gpt-4o-mini", content |-> <<Lit("reply")>>,
       finish_reason |-> "stop", usage |-> Usage(2, MaxTok), tieUp |-> TRUE] }

\* model names a backend reply carries: the four priced ones and two others
ModelNames == DOMAIN Pricing \cup {"gpt-4-turbo", "gpt-4o-mini-2024-07-18"}

\* replies over every model name and every pair of token counts
UsageReplies ==
    { [kind |-> "ok", model |-> m, content |-> <<Lit("reply")>>, finish_reason |-> "stop",
       usage |-> Usage(p, c), tieUp |-> t] :
        m \in ModelNames, p \in 0..MaxTok, c \in 0..MaxTok, t \in BOOLEAN }

\* templates handed to addTemplate: one with a placeholder it does not
\* declare and another of the same id in another category, one whose variable
\* name is no regular expression, one without a variables field
CustomTemplates ==
    { Template("custom_note", "Note",
               <<Lit("note: "), Ph("note"), Lit(" see "), Ph("missing")>>, <<"note">>, "system"),
      Template("custom_note", "Note (analysis)", <<Lit("n: "), Ph("note")>>, <<"note">>, "analysis"),
      Template("conversation_tutor", "Tutor (v2)",
               <<Lit("You are a "), Ph("language"), Lit(" tutor "), Ph("(")>>,
               <<"language", "(">>, "system"),
      [id |-> "custom_raw", name |-> "Raw", template |-> <<Lit("raw "), Ph("language")>>,
       category |-> "analysis"] }

\* template values handed to validateTemplate: each of id, name, template and
\* variables is absent or one of a few values
TemplateValues ==
    UNION { { [f \in fields \cup {"category"} |->
                 CASE f = "id" -> id
                   [] f = "name" -> name
                   [] f = "template" -> body
                   [] f = "variables" -> variables
                   [] OTHER -> "system"] :
              id \in {"", " ", "t1"},
              name \in {" ", "Note"},
              body \in { <<>>, <<Lit(" ")>>, <<Lit("hi")>>, <<Lit("note: "), Ph("note")>>,
                         <<Ph("note"), Lit(" see "), Ph("missing"), Ph("note")>>,
                         <<Lit("dear "), Ph("first-name")>> },
              variables \in { <<>>, <<"note">>, <<"note", "missing", "extra">>, <<"first-name">> } } :
            fields \in SUBSET {"id", "name", "template", "variables"} }

\* the inputs of the invocations that run concurrently: a chat, a chat for
\* a provider without an adapter, an analysis
ConcurrentInputs ==
    { [op |-> "chat", messages |-> History(2, 1), options |-> [temperature |-> 3]],
      [op |-> "chat", messages |-> History(2, 1), options |-> [provider |-> "anthropic"]],
      [op |-> "analyze", text |-> <<Lit("hello")>>, analysisType |-> "grammar",
       options |-> [provider |-> "openai"]] }

TemplateIds ==
    {DefaultTemplates[i].id : i \in 1..Len(DefaultTemplates)}
        \cup {t.id : t \in CustomTemplates} \cup {"no_such_template"}

\* PromptContext values handed to renderTemplate
RenderContexts ==
    {<<>>} \cup
    { [language |-> l, level |-> <<Lit("beginner")>>, userMessage |-> u,
       conversationHistory |-> h, additionalContext |-> a] :
        l \in {<<Lit("French")>>, <<Ph("level")>>},
        u \in UserTexts,
        h \in {History(0, 1), History(4, 1), History(5, 1), History(7, 2)},
        a \in {[topics |-> <<Lit("food")>>, note |-> <<Lit("n.b.")>>], [topics |-> <<Lit("food")>>]} }

(***************************************************************************)
(* The state machine.  A call is made when no call is in progress; its      *)
(* outcome is held in last until the caller has taken it (Return).          *)
(***************************************************************************)
NoCall == [op |-> "none"]

\* the configuration read at construction; both settings default as in the
\* first record
Configurations ==
    { [DEFAULT_AI_PROVIDER |-> "openai", OPENAI_DEFAULT_MODEL |-> "gpt-4o-mini"],
      [DEFAULT_AI_PROVIDER |-> "anthropic", OPENAI_DEFAULT_MODEL |-> "gpt-4-turbo"] }

Init ==
    /\ templates = DefaultTemplates
    /\ \E config \in Configurations :
          /\ defaultProvider = config.DEFAULT_AI_PROVIDER
          /\ defaultModel = config.OPENAI_DEFAULT_MODEL
    /\ pricing = Pricing
    /\ last = NoCall
    /\ inflight = [i \in 1..MaxCalls |-> [pc |-> "idle"]]
    /\ sent = [i \in 1..MaxCalls |-> <<>>]
    /\ health = [pc |-> "idle"]
    /\ db = [conversations |-> {"c1"}, messages |-> 0, increments |-> 0, writes |-> {}]
    /\ ops = [i \in 1..MaxOps |-> [pc |-> "idle"]]
    /\ metrics = [requests |-> <<>>, durations |-> <<>>, tokens |-> <<>>, costs |-> <<>>,
                  messages |-> <<>>, conversations |-> <<>>]

\* addTemplate that validates first and refuses a template with errors
AddTemplateChecked ==
    /\ last = NoCall
    /\ \E t \in CustomTemplates :
          IF ValidateTemplate(t) = Ok(<<>>)
          THEN /\ templates' = AddTemplateStore(templates, t)
               /\ last' = [op |-> "add", template |-> t, out |-> [ok |-> TRUE]]
          ELSE /\ templates' = templates
               /\ last' = [op |-> "add", template |-> t,
                           out |-> Throw(PlainError("Invalid template"))]
    /\ UNCHANGED <<defaultProvider, defaultModel, pricing, inflight, sent, health, db, ops, metrics>>

AddTemplate ==
    /\ last = NoCall
    /\ \E t \in CustomTemplates :
          /\ templates' = AddTemplateStore(templates, t)
          /\ last' = [op |-> "add", template |-> t, out |-> [ok |-> TRUE]]
    /\ UNCHANGED <<defaultProvider, defaultModel, pricing, inflight, sent, health, db, ops, metrics>>

Get ==
    /\ last = NoCall
    /\ \E id \in TemplateIds :
          last' = [op |-> "get", id |-> id, out |-> Ok(GetTemplate(templates, id))]
    /\ UNCHANGED <<templates, defaultProvider, defaultModel, pricing, inflight, sent, health, db, ops, metrics>>

List ==
    /\ last = NoCall
    /\ \E category \in {"conversation", "correction", "analysis", "system"} :
          last' = [op |-> "list", category |-> category,
                   out |-> Ok(GetTemplatesByCategory(templates, category))]
    /\ UNCHANGED <<templates, defaultProvider, defaultModel, pricing, inflight, sent, health, db, ops, metrics>>

\* renderTemplate that keeps what it has rendered as the template's body
RenderCaching ==
    /\ last = NoCall
    /\ \E id \in TemplateIds, context \in RenderContexts :
          LET r == RenderTemplate(templates, id, context)
          IN  /\ last' = [op |-> "render", id |-> id, context |-> context, out |-> r]
              /\ templates' = IF r.ok
                               THEN MapSet(templates, With(MapGet(templates, id), "template", r.value))
                               ELSE templates
    /\ UNCHANGED <<defaultProvider, defaultModel, pricing, inflight, sent, health, db, ops, metrics>>

Render ==
    /\ last = NoCall
    /\ \E id \in TemplateIds, context \in RenderContexts :
          last' = [op |-> "render", id |-> id, context |-> context,
                   out |-> RenderTemplate(templates, id, context)]
    /\ UNCHANGED <<templates, defaultProvider, defaultModel, pricing, inflight, sent, health, db, ops, metrics>>

Chat ==
    /\ last = NoCall
    /\ \E messages \in Histories, options \in OptionsSet, reply \in Replies :
          last' = [op |-> "chat", messages |-> messages, options |-> options,
                   out |-> GenerateChatResponse(messages, options, reply)]
    /\ UNCHANGED <<templates, defaultProvider, defaultModel, pricing, inflight, sent, health, db, ops, metrics>>

Tutor ==
    /\ last = NoCall
    /\ \E input \in ConversationInputs, history \in Histories,
          options \in OptionsSet, reply \in Replies :
          last' = [op |-> "tutor", userMessage |-> input.text, history |-> history,
                   context |-> input.context, options |-> options,
                   out |-> GenerateTutorResponse(input.text, history, input.context, options, reply)]
    /\ UNCHANGED <<templates, defaultProvider, defaultModel, pricing, inflight, sent, health, db, ops, metrics>>

Partner ==
    /\ last = NoCall
    /\ \E input \in ConversationInputs, history \in Histories,
          options \in OptionsSet, reply \in Replies :
          last' = [op |-> "partner", userMessage |-> input.text, history |-> history,
                   context |-> input.context, options |-> options,
                   out |-> GenerateConversationPartnerResponse(input.text, history, input.context,
                                                               options, reply)]
    /\ UNCHANGED <<templates, defaultProvider, defaultModel, pricing, inflight, sent, health, db, ops, metrics>>

Analyze ==
    /\ last = NoCall
    /\ \E input \in ConversationInputs, analysisType \in {"grammar", "style", "vocabulary"},
          options \in OptionsSet, reply \in Replies :
          last' = [op |-> "analyze", text |-> input.text, analysisType |-> analysisType,
                   context |-> input.context, options |-> options,
                   out |-> AnalyzeText(input.text, analysisType, input.context, options, reply)]
    /\ UNCHANGED <<templates, defaultProvider, defaultModel, pricing, inflight, sent, health, db, ops, metrics>>

Starters ==
    /\ last = NoCall
    /\ \E context \in CallContexts, options \in OptionsSet, reply \in Replies :
          last' = [op |-> "starters", context |-> context, options |-> options,
                   out |-> GenerateConversationStarters(context, options, reply)]
    /\ UNCHANGED <<templates, defaultProvider, defaultModel, pricing, inflight, sent, health, db, ops, metrics>>

\* a call of the adapter's generateChatResponse itself
AdapterChat ==
    /\ last = NoCall
    /\ \E messages \in {History(0, 1), History(3, 1), History(3, 2)},
          systemPrompt \in {<<>>, <<Lit("Be brief.")>>}, reply \in Replies :
          last' = [op |-> "adapterChat", messages |-> messages, systemPrompt |-> systemPrompt,
                   out |-> OpenAIGenerateChatResponse(messages, systemPrompt, <<>>, reply)]
    /\ UNCHANGED <<templates, defaultProvider, defaultModel, pricing, inflight, sent, health, db, ops, metrics>>

Validate ==
    /\ last = NoCall
    /\ \E provider \in {"", "openai", "anthropic"}, reply \in Replies :
          last' = [op |-> "validate", provider |-> provider, reply |-> reply,
                   out |-> ValidateProviderConnection(provider, reply)]
    /\ UNCHANGED <<templates, defaultProvider, defaultModel, pricing, inflight, sent, health, db, ops, metrics>>

\* a call of validateTemplate
ValidateTemplateCall ==
    /\ last = NoCall
    /\ \E template \in TemplateValues :
          last' = [op |-> "validateTemplate", template |-> template,
                   out |-> ValidateTemplate(template)]
    /\ UNCHANGED <<templates, defaultProvider, defaultModel, pricing, inflight, sent, health, db, ops, metrics>>

\* a call of the adapter's generateCompletion itself
Complete ==
    /\ last = NoCall
    /\ \E options \in {<<>>, [model |-> "gpt-4"]}, reply \in UsageReplies :
          last' = [op |-> "complete", messages |-> History(2, 1), options |-> options,
                   reply |-> reply,
                   out |-> GenerateCompletion(History(2, 1), options, reply)]
    /\ UNCHANGED <<templates, defaultProvider, defaultModel, pricing, inflight, sent, health, db, ops, metrics>>

Return ==
    /\ last # NoCall
    /\ last' = NoCall
    /\ UNCHANGED <<templates, defaultProvider, defaultModel, pricing, inflight, sent, health, db, ops, metrics>>

Next ==
    \/ AddTemplate \/ Get \/ List \/ Render \/ Chat \/ Tutor \/ Partner \/ Analyze \/ Starters
    \/ AdapterChat \/ Validate \/ Return

Spec == Init /\ [][Next]_vars

\* the adapter alone, over every model name and token count
NextCost == Complete \/ Return

SpecCost == Init /\ [][NextCost]_vars

\* what an invocation comes to when the backend answers its request with reply
Outcome(input, reply) ==
    IF input.op = "chat" THEN GenerateChatResponse(input.messages, input.options, reply)
    ELSE AnalyzeText(input.text, input.analysisType, <<>>, input.options, reply)

\* the requests an invocation makes: they do not depend on the answer
Requests(input) == Outcome(input, [kind |-> "error"]).calls

\* an invocation that sends no request while one with the same content awaits
\* its answer, and joins that one
IssueRequestsCoalesced(requests, i, calls) ==
    IF \E j \in 1..MaxCalls : inflight[j].pc = "awaiting" /\ Requests(inflight[j].input) = calls
    THEN requests
    ELSE [requests EXCEPT ![i] = @ \o calls]

\* chat.completions.create is called for invocation i
IssueRequests(requests, i, calls) == [requests EXCEPT ![i] = @ \o calls]

\* invocation i starts: the operation runs up to its await of the backend,
\* or fails before it has called the backend
Invoke ==
    \E i \in 1..MaxCalls, input \in ConcurrentInputs :
        /\ inflight[i].pc = "idle"
        /\ IF Requests(input) = <<>>
           THEN /\ inflight' = [inflight EXCEPT ![i] =
                                    [pc |-> "done", input |-> input,
                                     out |-> Outcome(input, [kind |-> "error"])]]
                /\ sent' = sent
           ELSE /\ inflight' = [inflight EXCEPT ![i] = [pc |-> "awaiting", input |-> input]]
                /\ sent' = IssueRequests(sent, i, Requests(input))
        /\ UNCHANGED <<templates, defaultProvider, defaultModel, pricing, last, health, db, ops, metrics>>

\* the backend answers the request of invocation i, or fails it; the
\* invocation takes the answer and ends
Answer ==
    \E i \in 1..MaxCalls, reply \in Replies :
        /\ inflight[i].pc = "awaiting"
        /\ inflight' = [inflight EXCEPT ![i] =
                           [pc |-> "done", input |-> inflight[i].input, reply |-> reply,
                            out |-> Outcome(inflight[i].input, reply)]]
        /\ UNCHANGED <<templates, defaultProvider, defaultModel, pricing, last, sent, health, db, ops, metrics>>

\* invocations of the orchestrator that run concurrently
NextConcurrent == Invoke \/ Answer

SpecConcurrent == Init /\ [][NextConcurrent]_vars

\* validateTemplate alone, over the template values
NextValidate == ValidateTemplateCall \/ Return

SpecValidate == Init /\ [][NextValidate]_vars


(***************************************************************************)
(* Correction extractor (DemoController.parseGrammarCorrections).  A text  *)
(* is a sequence of words with its length in characters.  The reply of the *)
(* model is described by what the code's patterns find in it: the marker   *)
(* words it contains, what each of the four corrected-text patterns        *)
(* captures, the captures of every match of each of the four error         *)
(* patterns, and what each of the three suggestion patterns captures.      *)
(***************************************************************************)
Text(words, length) == [words |-> words, length |-> length]

\* no match, or a capture that is empty
NoText == Text(<<>>, 0)

Markers == {"corrected", "error", "mistake", "should be", "change", "fix"}

LooksCorrect == "Votre texte semble correct !"
Apology == "L'IA a detecte le besoin d'ameliorations mais les details n'ont pas pu etre extraits automatiquement."
Improved == "Quelques ameliorations ont ete apportees a votre texte."
Unavailable == "Analyse des corrections indisponible."
Suggested(n) == <<ToString(n), "correction(s) suggeree(s) pour ameliorer votre texte.">>

\* the flags of the four error patterns: the first two are not global
ErrorPatternFlags == << {"i", "s"}, {"i", "s"}, {"g", "i"}, {"g", "i"} >>

\* String.prototype.matchAll that accepts a pattern without the g flag
MatchAllAnyFlags(flags, matches) == Ok(matches)

\* String.prototype.matchAll: a TypeError for a pattern without the g flag
MatchAll(flags, matches) == IF "g" \in flags THEN Ok(matches) ELSE Throw(TypeError)

\* the first of the captures that is not empty, NoText when there is none
RECURSIVE FirstCapture(_)
FirstCapture(captures) ==
    IF captures = <<>> THEN NoText
    ELSE IF Head(captures) # NoText THEN Head(captures)
    ELSE FirstCapture(Tail(captures))

\* the loop over errorPatterns from pattern i on: the captures longer than 10
\* and shorter than 200 characters are pushed to errors
RECURSIVE ExtractErrors(_, _, _)
ExtractErrors(reply, i, errors) ==
    IF i > Len(ErrorPatternFlags) THEN Ok(errors)
    ELSE LET matches == MatchAll(ErrorPatternFlags[i], reply.errorMatches[i])
         IN  IF ~matches.ok THEN matches
             ELSE ExtractErrors(reply, i + 1,
                      errors \o SelectSeq(matches.value,
                                          LAMBDA m : m # NoText /\ m.length > 10 /\ m.length < 200))

\* lower case of the words that occur with a capital
Lower(word) ==
    CASE word = "I" -> "i"
      [] word = "Hats" -> "hats"
      [] OTHER -> word

\* the words of text from position i match the pattern words, whatever the case
MatchesAt(text, i, pattern) ==
    /\ i + Len(pattern) - 1 <= Len(text)
    /\ \A j \in 1..Len(pattern) : Lower(text[i + j - 1]) = pattern[j]

\* simpleCorrections: from as its words in lower case and its length
SimpleCorrections ==
    << [from |-> Text(<<"i", "am", "learn">>, 10), to |-> Text(<<"I", "am", "learning">>, 13)],
       [from |-> Text(<<"i", "want", "practice">>, 15), to |-> Text(<<"I", "want", "to", "practice">>, 18)],
       [from |-> Text(<<"hats">>, 4), to |-> Text(<<"hats">>, 4)] >>


\* originalText.replace(from, to) from word i on: every occurrence is replaced
RECURSIVE ReplaceWords(_, _, _, _)
ReplaceWords(words, i, pattern, to) ==
    IF i > Len(words) THEN <<>>
    ELSE IF MatchesAt(words, i, pattern)
    THEN to \o ReplaceWords(words, i + Len(pattern), pattern, to)
    ELSE <<words[i]>> \o ReplaceWords(words, i + 1, pattern, to)

\* the positions at which the pattern matches, overlapping ones left out
RECURSIVE Occurrences(_, _, _)
Occurrences(words, i, pattern) ==
    IF i > Len(words) THEN 0
    ELSE IF MatchesAt(words, i, pattern) THEN 1 + Occurrences(words, i + Len(pattern), pattern)
    ELSE Occurrences(words, i + 1, pattern)

\* the loop over simpleCorrections from entry i on: an entry whose pattern is
\* found in the original text sets correctedText to the original text with
\* that entry applied and pushes its description to errors
RECURSIVE ApplySimpleCorrections(_, _, _, _)
ApplySimpleCorrections(originalText, i, correctedText, errors) ==
    IF i > Len(SimpleCorrections) THEN [correctedText |-> correctedText, errors |-> errors]
    ELSE LET c == SimpleCorrections[i]
             n == Occurrences(originalText.words, 1, c.from.words)
             first == CHOOSE p \in 1..Len(originalText.words) :
                          /\ MatchesAt(originalText.words, p, c.from.words)
                          /\ \A q \in 1..(p - 1) : ~MatchesAt(originalText.words, q, c.from.words)
         IN  IF n = 0 THEN ApplySimpleCorrections(originalText, i + 1, correctedText, errors)
             ELSE ApplySimpleCorrections(originalText, i + 1,
                      Text(ReplaceWords(originalText.words, 1, c.from.words, c.to.words),
                           originalText.length + n * (c.to.length - c.from.length)),
                      Append(errors,
                             Text(<<"\"">> \o SubSeq(originalText.words, first, first + Len(c.from.words) - 1)
                                      \o <<"\" should be \"">> \o c.to.words \o <<"\"">>,
                                  c.from.length + c.to.length + 15)))

CorrectionResult(hasErrors, correctedText, errors, explanation) ==
    [hasErrors |-> hasErrors, correctedText |-> correctedText, errors |-> errors,
     explanation |-> explanation]

\* the extractor without a limit on the errors it returns: every capture of
\* every error pattern, however long, and all of them
ParseGrammarCorrectionsUnbounded(reply, originalText) ==
    CorrectionResult(reply.markers # {}, originalText,
                     IF reply.markers = {} THEN <<>>
                     ELSE reply.errorMatches[1] \o reply.errorMatches[2]
                              \o reply.errorMatches[3] \o reply.errorMatches[4],
                     <<LooksCorrect>>)

\* parseGrammarCorrections: whatever is thrown on the way is caught, and the
\* result is then the one of the catch block
ParseGrammarCorrections(reply, originalText) ==
    IF reply.markers = {}
    THEN CorrectionResult(FALSE, originalText, <<>>, <<LooksCorrect>>)
    ELSE LET corrected1 == IF FirstCapture(reply.corrected) # NoText
                           THEN FirstCapture(reply.corrected) ELSE originalText
             extracted == ExtractErrors(reply, 1, <<>>)
             corrected3 == IF corrected1 = originalText /\ extracted.value # <<>>
                              /\ FirstCapture(reply.suggestions) # NoText
                           THEN FirstCapture(reply.suggestions) ELSE corrected1
             simple == IF corrected3 = originalText
                       THEN ApplySimpleCorrections(originalText, 1, corrected3, extracted.value)
                       ELSE [correctedText |-> corrected3, errors |-> extracted.value]
         IN  IF ~extracted.ok
             THEN CorrectionResult(FALSE, originalText, <<>>, <<Unavailable>>)
             ELSE CorrectionResult(TRUE, simple.correctedText, SubSeq(simple.errors, 1, Min(3, Len(simple.errors))),
                      IF simple.errors # <<>> THEN Suggested(Len(simple.errors))
                      ELSE IF simple.correctedText # originalText THEN <<Improved>>
                      ELSE <<Apology>>)

\* replies of the model, by what the patterns find in them
ExtractorReplies ==
    { [markers |-> m, corrected |-> c, errorMatches |-> e, suggestions |-> s] :
        m \in { {}, {"error"}, {"corrected", "should be"} },
        c \in { <<NoText, NoText, NoText, NoText>>,
                <<NoText, Text(<<"I", "am", "learning", "English">>, 21), NoText, NoText>> },
        e \in { << <<>>, <<>>, <<>>, <<>> >>,
                << <<Text(<<"verb">>, 10)>>, <<>>, <<>>, <<Text(<<"long">>, 200)>> >>,
                << <<>>, <<>>,
                   <<Text(<<"e1">>, 11), Text(<<"e2">>, 199), Text(<<"e3">>, 40), NoText>>,
                   <<Text(<<"e4">>, 60), Text(<<"e5">>, 250)>> >> },
        s \in { <<NoText, NoText, NoText>>, <<NoText, Text(<<"I", "am", "learning">>, 13), NoText>> } }

\* the texts the user wrote
OriginalTexts ==
    { Text(<<"Hello", "there">>, 11),
      Text(<<"I", "am", "learn", "English">>, 18),
      Text(<<"I", "want", "practice", "and", "I", "am", "learn">>, 34),
      Text(<<"Hats", "and", "hats">>, 13) }

\* a call of parseGrammarCorrections
Parse ==
    /\ last = NoCall
    /\ \E reply \in ExtractorReplies, originalText \in OriginalTexts :
          last' = [op |-> "parse", reply |-> reply, originalText |-> originalText,
                   out |-> Ok(ParseGrammarCorrections(reply, originalText))]
    /\ UNCHANGED <<templates, defaultProvider, defaultModel, pricing, inflight, sent, health, db, ops, metrics>>

\* the extractor alone, over the replies and the texts
NextParse == Parse \/ Return

SpecParse == Init /\ [][NextParse]_vars


(***************************************************************************)
(* The health endpoint: AIProvidersController.checkHealth.  The timestamp  *)
(* of the response is left out.                                            *)
(***************************************************************************)
\* Object.values(AIProvider)
Providers == <<"openai", "anthropic">>

\* how the promise of one validation settles: with the service itself it is
\* the outcome of validateProviderConnection for some answer of the backend,
\* with a double of the service it fulfils with either value or rejects
Settlements(service, provider) ==
    IF service = "real"
    THEN { LET r == ValidateProviderConnection(provider, reply)
           IN  IF r.ok THEN [status |-> "fulfilled", value |-> r.value]
               ELSE [status |-> "rejected"] : reply \in Replies }
    ELSE { [status |-> "fulfilled", value |-> TRUE],
           [status |-> "fulfilled", value |-> FALSE],
           [status |-> "rejected"] }

\* one entry of the response, from a settled promise
HealthEntry(provider, result) ==
    IF result.status = "fulfilled"
    THEN [provider |-> provider, status |-> result.value]
    ELSE [provider |-> "unknown", status |-> FALSE]

\* a response built from the settlements in the order they happened
HealthResponseInCompletionOrder(checks) ==
    [providers |-> [k \in 1..Len(checks) |->
                       HealthEntry(Providers[health.order[k]], checks[health.order[k]])],
     overall |-> \A i \in 1..Len(checks) :
                     checks[i].status = "fulfilled" /\ checks[i].value]

\* the response, from the result of Promise.allSettled
HealthResponse(checks) ==
    [providers |-> [i \in 1..Len(checks) |-> HealthEntry(Providers[i], checks[i])],
     overall |-> \A i \in 1..Len(checks) :
                     checks[i].status = "fulfilled" /\ checks[i].value]

\* checkHealth up to its await: providers.map starts one validation for
\* each provider, in the order of the enumeration
CheckHealth ==
    \E service \in {"real", "double"} :
        /\ health.pc = "idle"
        /\ health' = [pc |-> "waiting", service |-> service,
                      validated |-> [i \in 1..Len(Providers) |-> Providers[i]],
                      checks |-> [i \in 1..Len(Providers) |-> [status |-> "pending"]],
                      order |-> <<>>]
        /\ UNCHANGED <<templates, defaultProvider, defaultModel, pricing, last, inflight, sent,
                       db, ops, metrics>>

\* one of the pending validations settles
Settle ==
    \E i \in 1..Len(Providers) :
        /\ health.pc = "waiting"
        /\ health.checks[i].status = "pending"
        /\ \E result \in Settlements(health.service, Providers[i]) :
              health' = [health EXCEPT !.checks[i] = result, !.order = Append(@, i)]
        /\ UNCHANGED <<templates, defaultProvider, defaultModel, pricing, last, inflight, sent,
                       db, ops, metrics>>

\* Promise.allSettled resolves and checkHealth returns
Respond ==
    /\ health.pc = "waiting"
    /\ \A i \in 1..Len(Providers) : health.checks[i].status # "pending"
    /\ health' = [pc |-> "done", service |-> health.service, validated |-> health.validated,
                  checks |-> health.checks, order |-> health.order,
                  response |-> HealthResponse(health.checks)]
    /\ UNCHANGED <<templates, defaultProvider, defaultModel, pricing, last, inflight, sent,
                   db, ops, metrics>>

NextHealth == CheckHealth \/ Settle \/ Respond

SpecHealth == Init /\ [][NextHealth]_vars


(***************************************************************************)
(* Conversations: DbClientService and ConversationsService.  The DB        *)
(* service is another program; db holds what it stores.  Conversation c1   *)
(* is stored at the start, c2 only once it has been created.  The counts   *)
(* of messages and of messageCount increments are those of c1.             *)
(***************************************************************************)
ConversationIds == {"c1", "c2"}

\* the errors a request to the DB service fails with (axios errors): a
\* response with a message, a response without one, no response at all
UpstreamErrors ==
    { [message |-> "Request failed with status code 404",
       response |-> [status |-> 404, data |-> [message |-> "Conversation not found"]]],
      [message |-> "Request failed with status code 503",
       response |-> [status |-> 503, data |-> <<>>]],
      [message |-> "connect ECONNREFUSED"] }

\* a handleRequest that reports every failure as a 500
HandleRequestAlways500(result) ==
    IF result.ok THEN Ok(result.data)
    ELSE Throw(With(HttpException(500, result.error.message), "error", "DB Service Error"))

\* handleRequest: the data of the response, or the HttpException made from
\* the error
HandleRequest(result) ==
    IF result.ok THEN Ok(result.data)
    ELSE LET error == result.error
             upstream ==
                 IF Has(error, "response") /\ Has(error.response, "data")
                    /\ Has(error.response.data, "message")
                 THEN error.response.data.message ELSE ""
             errorMessage == IF upstream # "" THEN upstream ELSE error.message
             statusCode ==
                 IF Has(error, "response") /\ error.response.status # 0
                 THEN error.response.status ELSE 500
         IN  Throw(With(HttpException(statusCode, errorMessage), "error", "DB Service Error"))

\* the requests each operation makes, in order
Program(op) ==
    CASE op = "create" -> <<"createConversation">>
      [] op = "findOne" -> <<"getConversation">>
      [] op = "findByUser" -> <<"getAllConversations">>
      [] op = "update" -> <<"getConversation", "updateConversation">>
      [] op = "remove" -> <<"getConversation", "deleteConversation">>
      [] op = "addMessage" -> <<"getConversation", "createMessage", "updateConversation">>
      [] op = "getMessages" -> <<"getConversation", "getMessages">>

Operations ==
    {"create", "findOne", "findByUser", "update", "remove", "addMessage", "getMessages"}

\* the message of the generic failure of each operation
FailureMessage(op) ==
    CASE op = "create" -> "Failed to create conversation"
      [] op = "findOne" -> "Failed to fetch conversation"
      [] op = "findByUser" -> "Failed to fetch user conversations"
      [] op = "update" -> "Failed to update conversation"
      [] op = "remove" -> "Failed to delete conversation"
      [] op = "addMessage" -> "Failed to add message"
      [] op = "getMessages" -> "Failed to fetch messages"

\* a catch block that reports every error as the generic failure
RethrowGeneric(error, op) == HttpException(500, FailureMessage(op))

\* the catch block of every operation
Rethrow(error, op) ==
    IF error.type = "HttpException" THEN error ELSE HttpException(500, FailureMessage(op))

\* what the DB service does with a request it answers: the data of its
\* response and its store afterwards.  A conversation that is not stored is
\* answered with no data; the messages are stored apart from the
\* conversations
DbApply(store, request, id, op) ==
    LET stored == id \in store.conversations
    IN  CASE request = "createConversation" ->
                { [data |-> data, store |-> [store EXCEPT !.conversations = @ \cup {"c2"}]] :
                    data \in {[id |-> "c2"], Undefined} }
          [] request = "getConversation" ->
                { [data |-> IF stored THEN [id |-> id] ELSE Undefined, store |-> store] }
          [] request = "updateConversation" ->
                { [data |-> IF stored THEN [id |-> id] ELSE Undefined,
                   store |-> IF stored /\ id = "c1" /\ op = "addMessage"
                             THEN [store EXCEPT !.increments = @ + 1] ELSE store] }
          [] request = "deleteConversation" ->
                { [data |-> IF stored THEN [id |-> id] ELSE Undefined,
                   store |-> [store EXCEPT !.conversations = @ \ {id}]] }
          [] request = "createMessage" ->
                { [data |-> [conversationId |-> id],
                   store |-> IF id = "c1" THEN [store EXCEPT !.messages = @ + 1] ELSE store] }
          [] OTHER -> { [data |-> <<>>, store |-> store] }

\* the write requests of addMessage and update
IsWrite(request) == request \in {"createMessage", "updateConversation"}

\* the store with the write request noted that it has been sent, and
\* whether the conversation was stored at that time
Noted(store, request, id) ==
    IF IsWrite(request)
    THEN [store EXCEPT !.writes = @ \cup {[request |-> request, id |-> id,
                                          stored |-> id \in store.conversations]}]
    ELSE store

\* an operation that checks nothing in the data it gets
AfterRequestUnchecked(op, request, id, data) == Ok(data)

\* what an operation does with the data of a response: findOne (also inside
\* update, remove, addMessage, getMessages) throws 404 when there is none,
\* create reads the id of the conversation
AfterRequest(op, request, id, data) ==
    IF request = "getConversation" /\ data = Undefined
    THEN Throw(HttpException(404, "Conversation with ID " \o id \o " not found"))
    ELSE IF request = "createConversation" /\ data = Undefined
    THEN Throw(Rethrow(TypeError, op))
    ELSE Ok(data)

\* an operation is called; a call takes the first free slot.  findOne and
\* addMessage are called for either conversation, the other operations on a
\* conversation for c1
Call ==
    \E i \in 1..MaxOps, op \in Operations, id \in ConversationIds :
        /\ ops[i].pc = "idle"
        /\ \A j \in 1..(i - 1) : ops[j].pc # "idle"
        /\ op \in {"create", "findByUser"} => id = "c2"
        /\ op \in {"update", "remove", "getMessages"} => id = "c1"
        /\ op = "create" =>
              /\ "c2" \notin db.conversations
              /\ \A j \in 1..MaxOps : Has(ops[j], "op") => ops[j].op # "create"
        /\ ops' = [ops EXCEPT ![i] = [pc |-> "running", op |-> op, id |-> id, at |-> 1,
                                      value |-> Undefined]]
        /\ UNCHANGED <<templates, defaultProvider, defaultModel, pricing, last, inflight, sent,
                       health, db, metrics>>

\* the next request of a running operation: it fails or the DB service
\* answers it; the operation goes on up to its next request, or ends
Request ==
    \E i \in 1..MaxOps :
        /\ ops[i].pc = "running"
        /\ LET o == ops[i]
               request == Program(o.op)[o.at]
               noted == Noted(db, request, o.id)
               finish(result, out) ==
                   ops' = [ops EXCEPT ![i] = [pc |-> "done", op |-> o.op, id |-> o.id,
                                              at |-> o.at, result |-> result, out |-> out]]
           IN  \/ \E error \in UpstreamErrors :
                     LET result == [ok |-> FALSE, error |-> error]
                     IN  /\ db' = noted
                         /\ finish(result, Throw(Rethrow(HandleRequest(result).error, o.op)))
               \/ \E reply \in DbApply(noted, request, o.id, o.op) :
                     LET result == [ok |-> TRUE, data |-> reply.data]
                         after == AfterRequest(o.op, request, o.id, HandleRequest(result).value)
                         value == IF request = "updateConversation" /\ o.op = "addMessage"
                                  THEN o.value ELSE reply.data
                     IN  /\ db' = reply.store
                         /\ IF ~after.ok THEN finish(result, after)
                            ELSE IF o.at = Len(Program(o.op)) THEN finish(result, Ok(value))
                            ELSE ops' = [ops EXCEPT ![i] = [o EXCEPT !.at = @ + 1,
                                                                     !.value = value]]
        /\ UNCHANGED <<templates, defaultProvider, defaultModel, pricing, last, inflight, sent,
                       health, metrics>>

NextConversations == Call \/ Request

SpecConversations == Init /\ [][NextConversations]_vars


(***************************************************************************)
(* Metrics: MetricsInterceptor and PrometheusService.  A counter is a      *)
(* function from the label sets it has seen to their values; the histogram *)
(* is the number of observations per label set.                            *)
(***************************************************************************)
\* Counter.inc(labels, n)
Inc(counter, labels, n) ==
    IF labels \in DOMAIN counter
    THEN [counter EXCEPT ![labels] = @ + n]
    ELSE [l \in DOMAIN counter \cup {labels} |-> IF l = labels THEN n ELSE counter[l]]

\* the value of a counter for a label set
Count(counter, labels) == IF labels \in DOMAIN counter THEN counter[labels] ELSE 0

RECURSIVE SumOver(_, _)
SumOver(counter, labels) ==
    IF labels = {} THEN 0
    ELSE LET l == CHOOSE x \in labels : TRUE
         IN  counter[l] + SumOver(counter, labels \ {l})

\* the sum of a counter over its label sets
Total(counter) == SumOver(counter, DOMAIN counter)

\* x || "unknown" for an optional string, "" standing for undefined
OrUnknown(x) == IF x # "" THEN x ELSE "unknown"

\* a property of a JavaScript object; absent stands for the undefined read
\* from an object that has no property of that name: "" where a string is
\* expected, 0 where a number is, both as falsy as undefined
Property(object, name, absent) == IF Has(object, name) THEN object[name] ELSE absent

\* truthiness of a number
TruthyNumber(x) == x # 0

\* incrementRequests and recordRequestDuration, as the interceptor calls
\* them: without provider and model
RecordRequest(m, endpoint, method, status) ==
    [m EXCEPT !.requests = Inc(@, [endpoint |-> endpoint, method |-> method, status |-> status,
                                   provider |-> "unknown", model |-> "unknown"], 1),
              !.durations = Inc(@, [endpoint |-> endpoint, provider |-> "unknown",
                                    model |-> "unknown"], 1)]

\* the first part of extractAIMetrics: the message and conversation counters
TrackInteraction(m, request) ==
    LET language == OrUnknown(Property(request.query, "language", ""))
        level == OrUnknown(Property(request.query, "level", ""))
        type == IF request.endpoint = "/ai/chat" THEN "chat"
                ELSE IF request.endpoint = "/ai/tutor" THEN "tutor"
                ELSE IF request.endpoint = "/ai/conversation-partner" THEN "conversation-partner"
                ELSE IF request.endpoint = "/ai/analyze" THEN "analyze"
                ELSE ""
        messages == IF type # ""
                    THEN Inc(m.messages, [language |-> language, level |-> level, type |-> type], 1)
                    ELSE m.messages
        conversations ==
            IF request.endpoint = "/conversations" /\ request.method = "POST"
            THEN Inc(m.conversations, [language |-> language, level |-> level, type |-> "new"], 1)
            ELSE m.conversations
    IN  [m EXCEPT !.messages = messages, !.conversations = conversations]

\* the token counters read from the fields of the response's usage
TrackTokensOfResponse(m, data) ==
    LET provider == IF Has(data, "provider") /\ data.provider # "" THEN data.provider ELSE "openai"
        model == IF Has(data, "model") /\ data.model # "" THEN data.model ELSE "unknown"
        prompt == data.usage.promptTokens
        completion == data.usage.completionTokens
        withPrompt == IF prompt # 0
                      THEN Inc(m.tokens, [provider |-> provider, model |-> model,
                                          type |-> "prompt"], prompt)
                      ELSE m.tokens
    IN  [m EXCEPT !.tokens =
            IF completion # 0
            THEN Inc(withPrompt, [provider |-> provider, model |-> model,
                                  type |-> "completion"], completion)
            ELSE withPrompt]

\* the token counters of extractAIMetrics: usage.prompt_tokens and
\* usage.completion_tokens of the response data
TrackTokens(m, data) ==
    LET provider == IF Has(data, "provider") /\ data.provider # "" THEN data.provider ELSE "openai"
        model == IF Has(data, "model") /\ data.model # "" THEN data.model ELSE "unknown"
        prompt_tokens == Property(data.usage, "prompt_tokens", 0)
        completion_tokens == Property(data.usage, "completion_tokens", 0)
        withPrompt == IF TruthyNumber(prompt_tokens)
                      THEN Inc(m.tokens, [provider |-> provider, model |-> model,
                                          type |-> "prompt"], prompt_tokens)
                      ELSE m.tokens
    IN  [m EXCEPT !.tokens =
            IF TruthyNumber(completion_tokens)
            THEN Inc(withPrompt, [provider |-> provider, model |-> model,
                                  type |-> "completion"], completion_tokens)
            ELSE withPrompt]

\* the cost counter of extractAIMetrics
TrackCost(m, request, data) ==
    IF Has(data, "cost") /\ data.cost > 0
    THEN [m EXCEPT !.costs =
            Inc(@, [provider |-> IF Has(data, "provider") /\ data.provider # ""
                                 THEN data.provider ELSE "openai",
                    model |-> IF Has(data, "model") /\ data.model # "" THEN data.model
                              ELSE "unknown",
                    user_id |-> OrUnknown(Property(request.query, "userId", ""))], data.cost)]
    ELSE m

\* extractAIMetrics; the response data of the AI endpoints is an object
ExtractAIMetrics(m, request, data) ==
    LET tracked == TrackInteraction(m, request)
        tokens == IF Has(data, "usage") THEN TrackTokens(tracked, data) ELSE tracked
    IN  TrackCost(tokens, request, data)

\* intercept: the tap of a handler that returned, the catchError of one that
\* threw; a POST that returns has status 201
Intercepted(m, request, outcome) ==
    IF outcome.ok
    THEN ExtractAIMetrics(RecordRequest(m, request.endpoint, request.method, "201"),
                          request, outcome.value)
    ELSE RecordRequest(m, request.endpoint, request.method,
                       ToString(IF Has(outcome.error, "status") /\ outcome.error.status # 0
                                THEN outcome.error.status ELSE 500))

\* the requests that pass the interceptor: a chat or an analysis, with or
\* without the query parameters the interceptor reads
HttpRequests ==
    { [endpoint |-> e, method |-> "POST", query |-> q] :
        e \in {"/ai/chat", "/ai/analyze"},
        q \in { <<>>, [language |-> "French", level |-> "beginner", userId |-> "u1"] } }

\* what the backend answers to the request of the handler
MetricsReplies ==
    { [kind |-> "error"], [kind |-> "ok", model |-> "gpt-4o-mini-2024-07-18"] } \cup
    { [kind |-> "ok", model |-> m, content |-> <<Lit("reply")>>, finish_reason |-> "stop",
       usage |-> Usage(p, c), tieUp |-> TRUE] :
        m \in {"gpt-4o-mini", "gpt-4-turbo"}, p \in {0, 2}, c \in {0, MaxTok} }

\* the handler of the endpoint
Handle(request, reply) ==
    IF request.endpoint = "/ai/chat"
    THEN GenerateChatResponse(History(1, 1), <<>>, reply)
    ELSE AnalyzeText(<<Lit("hello")>>, "grammar", <<>>, <<>>, reply)

\* a request passes the interceptor and its handler completes
Intercept ==
    /\ last = NoCall
    /\ Total(metrics.requests) < MaxRequests
    /\ \E request \in HttpRequests, reply \in MetricsReplies :
          LET outcome == Handle(request, reply)
          IN  /\ metrics' = Intercepted(metrics, request, outcome)
              /\ last' = [op |-> "intercept", request |-> request, out |-> outcome,
                          before |-> metrics]
    /\ UNCHANGED <<templates, defaultProvider, defaultModel, pricing, inflight, sent,
                   health, db, ops>>

NextMetrics == Intercept \/ Return

SpecMetrics == Init /\ [][NextMetrics]_vars

(***************************************************************************)
(* Properties.                                                             *)
(***************************************************************************)
OrchestratorOps == {"chat", "tutor", "partner", "analyze", "starters"}

Failed == last.op # "none" /\ ~last.out.ok

\* the typed errors: an unsupported provider or analysis type (400) and a
\* template that is not registered
DomainTyped(error) ==
    \/ error.type = "HttpException" /\ error.status = 400
    \/ error = PlainError("Template not found")

\* the one generic failure of an operation
GenericFailure(op) ==
    IF op = "analyze" THEN HttpException(500, "Failed to analyze text")
    ELSE HttpException(500, "Failed to generate AI response")

\* C1: every failure that leaves an orchestrator operation is a typed error
\* or the operation's generic 500 failure; no raw exception reaches the caller.
C1_FailuresNormalized ==
    (last.op \in OrchestratorOps /\ Failed) =>
        (DomainTyped(last.out.error) \/ last.out.error = GenericFailure(last.op))

\* the prompt a tutor or partner call renders
ConversationPrompt(id) ==
    RenderTemplate(templates, id,
                   ConversationPromptContext(last.userMessage, last.history, last.context))

\* C2: the message list generateTutorResponse passes on is the system message
\* with the rendered conversation_tutor prompt, the last min(10, n) history
\* messages in their order, and the user message: min(10, n) + 2 messages.
C2_TutorMessageList ==
    last.op = "tutor" =>
        /\ Has(last.out, "chat") <=> ConversationPrompt("conversation_tutor").ok
        /\ Has(last.out, "chat") =>
              LET msgs == last.out.chat.messages
                  n == Len(last.history)
                  k == IF n < 10 THEN n ELSE 10
              IN  /\ Len(msgs) = k + 2
                  /\ msgs[1] = [role |-> "system",
                                content |-> ConversationPrompt("conversation_tutor").value]
                  /\ \A i \in 1..k : msgs[1 + i] = last.history[n - k + i]
                  /\ msgs[k + 2] = [role |-> "user", content |-> last.userMessage]

C2_Witness ==
    /\ last.op = "tutor"
    /\ Len(last.history) = 12
    /\ Has(last.out, "chat")
    /\ Len(last.out.chat.messages) = 12
    /\ last.out.chat.messages[2] = last.history[3]

\* whether a render context supplies a value for a declared variable; text
\* is the alias of userMessage and has no value of its own
Supplies(context, variable) ==
    CASE variable \in {"language", "level", "userMessage"} -> Truthy(Field(context, variable))
      [] variable = "conversationHistory" -> Has(context, "conversationHistory")
      [] variable = "text" -> FALSE
      [] OTHER -> Truthy(Additional(context, variable))

SuppliesAll(context, id) ==
    /\ MapHas(templates, id)
    /\ Has(MapGet(templates, id), "variables")
    /\ \A i \in 1..Len(MapGet(templates, id).variables) :
          Supplies(context, MapGet(templates, id).variables[i])

\* none of the values a context supplies for the declared variables holds
\* placeholder text of its own
PlainValues(context, id) ==
    \A i \in 1..Len(MapGet(templates, id).variables) :
        ~HasPlaceholder(VariableValue(MapGet(templates, id).variables[i], context))

\* C3: rendering a registered template with a context that supplies every
\* declared variable (no aliasing) returns a string without any placeholder.
\* Stated for supplied values that hold no placeholder text themselves: what
\* is left in the output is then left by the renderer.
C3_NoPlaceholderLeft ==
    (/\ last.op = "render"
     /\ last.out.ok
     /\ SuppliesAll(last.context, last.id)
     /\ PlainValues(last.context, last.id)) =>
        ~HasPlaceholder(last.out.value)

\* C4: render of an id that is not registered fails with the template-not-found
\* error and returns no string, whatever has been registered, and a render
\* call leaves the store as it is.
C4_UnknownIdFails ==
    /\ [](( last.op = "render" /\ ~MapHas(templates, last.id)) =>
            /\ ~last.out.ok
            /\ ~Has(last.out, "value")
            /\ last.out.error = PlainError("Template not found"))
    /\ [][last'.op = "render" => templates' = templates]_vars

C4_Witness ==
    /\ last.op = "render"
    /\ Len(templates) > Len(DefaultTemplates)
    /\ ~MapHas(templates, last.id)
    /\ last.out = Throw(PlainError("Template not found"))

\* C5: render of a registered template never fails, whatever the template
\* and the context.
C5_RenderNeverFails ==
    (last.op = "render" /\ MapHas(templates, last.id)) => last.out.ok

\* C6: generateChatResponse uses options.provider when it is given and the
\* configured default otherwise; a provider without an adapter gets the 400
\* unsupported-provider error and the adapter is not called.
C6_ProviderDispatch ==
    last.op = "chat" =>
        LET wanted == IF Has(last.options, "provider") THEN last.options.provider
                      ELSE defaultProvider
        IN  IF wanted = "openai"
            THEN /\ Len(last.out.calls) = 1
                 /\ last.out.ok => last.out.value.provider = "openai"
            ELSE /\ ~last.out.ok
                 /\ last.out.error.type = "HttpException"
                 /\ last.out.error.status = 400
                 /\ last.out.error.provider = wanted
                 /\ last.out.calls = <<>>

C6_Witness ==
    /\ last.op = "chat"
    /\ defaultProvider = "openai"
    /\ Has(last.options, "provider")
    /\ last.options.provider = "anthropic"
    /\ last.out.error.status = 400
    /\ last.out.calls = <<>>

\* C7: analyzeText calls the adapter with temperature 0.3 and
\* generateConversationStarters with temperature 0.8, whatever temperature the
\* caller gave; overriding options already overridden changes nothing.
C7_ForcedTemperature ==
    /\ (last.op = "analyze" /\ last.out.calls # <<>>) =>
          /\ last.out.calls[1].options.temperature = 3
          /\ last.out.calls[1].request.temperature = 3
    /\ (last.op = "starters" /\ last.out.calls # <<>>) =>
          /\ last.out.calls[1].options.temperature = 8
          /\ last.out.calls[1].request.temperature = 8
    /\ last.op \in {"analyze", "starters"} =>
          /\ AnalysisOptions(AnalysisOptions(last.options)) = AnalysisOptions(last.options)
          /\ StarterOptions(StarterOptions(last.options)) = StarterOptions(last.options)
          /\ \A f \in DOMAIN last.options \ {"temperature"} :
                AnalysisOptions(last.options)[f] = last.options[f]

C7_Witness ==
    /\ last.op = "analyze"
    /\ Has(last.options, "temperature")
    /\ last.options.temperature = 8
    /\ last.out.ok
    /\ last.out.calls[1].request.temperature = 3

\* C8: generateConversationPartnerResponse passes on the system message with
\* the rendered conversation_friend prompt, the last min(8, n) history
\* messages in their order and the user message, with temperature 0.8
\* whatever temperature the caller gave.
C8_PartnerMessageList ==
    last.op = "partner" =>
        /\ Has(last.out, "chat") <=> ConversationPrompt("conversation_friend").ok
        /\ Has(last.out, "chat") =>
              LET msgs == last.out.chat.messages
                  n == Len(last.history)
                  k == IF n < 8 THEN n ELSE 8
              IN  /\ Len(msgs) = k + 2
                  /\ msgs[1] = [role |-> "system",
                                content |-> ConversationPrompt("conversation_friend").value]
                  /\ \A i \in 1..k : msgs[1 + i] = last.history[n - k + i]
                  /\ msgs[k + 2] = [role |-> "user", content |-> last.userMessage]
                  /\ last.out.chat.options.temperature = 8
                  /\ \A i \in 1..Len(last.out.calls) :
                        last.out.calls[i].request.temperature = 8

C8_Witness ==
    /\ last.op = "partner"
    /\ Len(last.history) = 12
    /\ Has(last.options, "temperature")
    /\ last.options.temperature = 3
    /\ last.out.ok
    /\ Len(last.out.chat.messages) = 10
    /\ last.out.chat.messages[2] = last.history[5]
    /\ last.out.calls[1].request.temperature = 8

\* the requests the call in last has sent to the backend, each with the
\* arguments the adapter was called with
BackendCalls == IF last.op \in OrchestratorOps \cup {"complete"} THEN last.out.calls ELSE <<>>

\* the part of C9 that is about the messages, the temperature and maxTokens
RequestCarries(call) ==
    /\ Len(call.request.messages) = Len(call.messages)
    /\ \A j \in 1..Len(call.messages) :
          /\ DOMAIN call.request.messages[j] = {"role", "content"}
          /\ call.request.messages[j].role = call.messages[j].role
          /\ call.request.messages[j].content = call.messages[j].content
    /\ call.request.temperature =
          IF Has(call.options, "temperature") THEN call.options.temperature ELSE 7
    /\ call.request.max_tokens =
          IF Has(call.options, "maxTokens") THEN call.options.maxTokens ELSE 1000

\* C9 as claimed: the request carries the messages in number and order with
\* role and content only, options.model when the caller supplied one and the
\* default model otherwise, the supplied temperature (0 included) or 0.7, the
\* supplied maxTokens or 1000.
C9_RequestAsClaimed ==
    \A i \in 1..Len(BackendCalls) :
        /\ RequestCarries(BackendCalls[i])
        /\ BackendCalls[i].request.model =
              IF Has(BackendCalls[i].options, "model") THEN BackendCalls[i].options.model
              ELSE defaultModel

\* C9 as amended: the model is options.model when the caller supplied a
\* non-empty one, and the default model otherwise, also for a model "".
C9_RequestBuilt ==
    \A i \in 1..Len(BackendCalls) :
        /\ RequestCarries(BackendCalls[i])
        /\ BackendCalls[i].request.model =
              IF Has(BackendCalls[i].options, "model") /\ BackendCalls[i].options.model # ""
              THEN BackendCalls[i].options.model
              ELSE defaultModel

C9_Witness ==
    /\ last.op = "chat"
    /\ Len(last.messages) = 3
    /\ Has(last.options, "model")
    /\ last.options.model = ""
    /\ Len(last.out.calls) = 1
    /\ Has(last.out.calls[1].messages[1], "timestamp")
    /\ last.out.calls[1].request.model = defaultModel
    /\ Len(last.out.calls[1].request.messages) = 3

\* C10: for a model with a price the cost does not decrease when the prompt
\* tokens or the completion tokens grow (whichever way a halfway sum is
\* rounded at the larger count); for a model without a price the cost is 0;
\* and the completion succeeds either way.
C10_CostMonotoneOrZero ==
    last.op = "complete" =>
        /\ last.out.ok
        /\ LET m == last.reply.model
               p == last.reply.usage.prompt_tokens
               c == last.reply.usage.completion_tokens
           IN  /\ last.out.value.model = m
               /\ m \notin DOMAIN Pricing => last.out.value.cost = 0
               /\ m \in DOMAIN Pricing =>
                     \A more \in 1..(MaxTok + 1), t \in BOOLEAN :
                         /\ CalculateCost(m, p + more, c, t) >= last.out.value.cost
                         /\ CalculateCost(m, p, c + more, t) >= last.out.value.cost

C10_Witness ==
    /\ last.op = "complete"
    /\ last.reply.model = "gpt-4-turbo"
    /\ last.reply.usage.prompt_tokens = MaxTok
    /\ last.out.ok
    /\ last.out.value.usage.promptTokens = MaxTok
    /\ last.out.value.cost = 0

\* C11: validateProviderConnection never throws; it sends at most one request
\* to the backend, with max_tokens 10 and temperature 0, and none when the
\* provider has no adapter; it returns true exactly when the provider has an
\* adapter and the request succeeds, and false for every failure.
C11_ValidateNeverThrows ==
    last.op = "validate" =>
        LET target == IF last.provider # "" THEN last.provider ELSE defaultProvider
        IN  /\ last.out.ok
            /\ last.out.value \in BOOLEAN
            /\ Len(last.out.calls) = (IF target = "openai" THEN 1 ELSE 0)
            /\ \A i \in 1..Len(last.out.calls) :
                  /\ last.out.calls[i].request.max_tokens = 10
                  /\ last.out.calls[i].request.temperature = 0
                  /\ last.out.calls[i].request.messages = TestMessages
            /\ last.out.value <=> (target = "openai" /\ last.reply.kind = "ok")

C11_Witness ==
    /\ last.op = "validate"
    /\ last.provider = ""
    /\ defaultProvider = "openai"
    /\ last.reply.kind = "error"
    /\ Len(last.out.calls) = 1
    /\ last.out = [ok |-> TRUE, value |-> FALSE, calls |-> last.out.calls]

\* the message lists that reached the backend in the call held in last
ProviderCalls ==
    IF Has(last, "out") /\ Has(last.out, "calls") THEN last.out.calls ELSE <<>>

\* C12: in every message list that reaches the backend, whichever operation
\* built it, no message after the first has the role system.
C12_SystemMessageFirst ==
    \A i \in 1..Len(ProviderCalls) :
        \A j \in 2..Len(ProviderCalls[i].request.messages) :
            ProviderCalls[i].request.messages[j].role # "system"

\* text occurs in whole as a contiguous piece
Occurs(text, whole) ==
    \E o \in 0..(Len(whole) - Len(text)) : SubSeq(whole, o + 1, o + Len(text)) = text

\* the history a render context carries, empty when it carries none
ContextHistory(context) ==
    IF Has(context, "conversationHistory") THEN context.conversationHistory ELSE <<>>

\* line i of the transcript of the last k messages of history
TranscriptLine(history, k, i) ==
    LET msg == history[Len(history) - k + i]
    IN  (IF i > 1 THEN <<Lit("\n")>> ELSE <<>>)
            \o <<Lit(IF msg.role = "user" THEN "Student: " ELSE "Tutor: ")>> \o msg.content

\* C13: when a template that declares conversationHistory is rendered with a
\* history of n messages, the transcript substituted is the last min(5, n)
\* messages in their order, one per line, "Student: " before the content of a
\* user message and "Tutor: " before any other; with an empty or absent
\* history it is the sentence "No previous conversation."; and the rendered
\* prompt holds that transcript where the body has the placeholder.
C13_TranscriptLastFive ==
    (/\ last.op = "render"
     /\ MapHas(templates, last.id)
     /\ Has(MapGet(templates, last.id), "variables")
     /\ \E v \in 1..Len(MapGet(templates, last.id).variables) :
           MapGet(templates, last.id).variables[v] = "conversationHistory") =>
        LET history == ContextHistory(last.context)
            n == Len(history)
            k == IF n < 5 THEN n ELSE 5
            transcript == VariableValue("conversationHistory", last.context)
        IN  /\ n = 0 => transcript = <<Lit("No previous conversation.")>>
            /\ n > 0 => transcript = Flatten([i \in 1..k |-> TranscriptLine(history, k, i)])
            /\ (last.out.ok /\ Occurs(<<Ph("conversationHistory")>>, MapGet(templates, last.id).template))
                  => Occurs(transcript, last.out.value)

C13_Witness ==
    /\ last.op = "render"
    /\ last.id = "conversation_friend"
    /\ ContextHistory(last.context) = History(7, 2)
    /\ last.out.ok
    /\ Occurs(<<Lit("Student: "), Lit("m6"), Lit("\n"), Lit("Tutor: "), Lit("m7")>>, last.out.value)
    /\ Occurs(<<Lit(" words; context: "), Lit("Tutor: "), Lit("m3")>>, last.out.value)
    /\ ~Occurs(<<Lit("m2")>>, last.out.value)

\* C14: register never fails and get then returns the template registered,
\* also when the id was registered before; what get returns for an id changes
\* only in a step that registers that id; an id that is found stays found;
\* and an id that was never registered is not found.
C14_GetReturnsLatest ==
    /\ [](last.op = "add" =>
            /\ last.out.ok
            /\ GetTemplate(templates, last.template.id) = last.template)
    /\ [](last.op = "get" =>
            /\ last.out.ok
            /\ last.id = "no_such_template" => last.out.value = Undefined
            /\ last.out.value # Undefined =>
                  /\ last.out.value.id = last.id
                  /\ \/ \E i \in 1..Len(DefaultTemplates) : DefaultTemplates[i] = last.out.value
                     \/ last.out.value \in CustomTemplates)
    /\ [][\A id \in TemplateIds :
            /\ GetTemplate(templates', id) # GetTemplate(templates, id) =>
                  (last'.op = "add" /\ last'.template.id = id)
            /\ GetTemplate(templates, id) # Undefined => GetTemplate(templates', id) # Undefined]_vars
    /\ (\A id \in TemplateIds :
            GetTemplate(templates, id) # Undefined =>
                \E i \in 1..Len(DefaultTemplates) : DefaultTemplates[i] = GetTemplate(templates, id))

\* get returns the template registered over the default conversation_tutor
C14_Witness ==
    /\ last.op = "get"
    /\ last.id = "conversation_tutor"
    /\ last.out.value \in CustomTemplates
    /\ last.out.value # DefaultTemplates[1]
    /\ Len(templates) > Len(DefaultTemplates)

\* the ids of the store in the order of its entries
StoreIds(entries) == [i \in 1..Len(entries) |-> entries[i].id]

\* the position of an id in the store
StorePosition(id) == CHOOSE i \in 1..Len(templates) : templates[i].id = id

\* C15: getTemplatesByCategory(c) returns exactly the stored templates whose
\* category is c now, each once, in the order of the first insertion of their
\* ids: a register step leaves the order of the ids there are as it is and
\* puts a new id last.
C15_ListInInsertionOrder ==
    /\ [](last.op = "list" =>
            LET found == last.out.value
            IN  /\ last.out.ok
                /\ \A i \in 1..Len(found) :
                      /\ found[i].category = last.category
                      /\ GetTemplate(templates, found[i].id) = found[i]
                /\ \A j \in 1..Len(templates) :
                      templates[j].category = last.category =>
                          \E i \in 1..Len(found) : found[i] = templates[j]
                /\ \A i, j \in 1..Len(found) :
                      i < j => StorePosition(found[i].id) < StorePosition(found[j].id))
    /\ [][/\ Len(templates') >= Len(templates)
          /\ SubSeq(StoreIds(templates'), 1, Len(templates)) = StoreIds(templates)]_vars
    /\ StoreIds(templates) = StoreIds(DefaultTemplates)

\* the template registered over conversation_tutor is listed under its new
\* category, before the default template of that category and before the
\* template registered under a new id
C15_Witness ==
    /\ last.op = "list"
    /\ last.category = "system"
    /\ Len(last.out.value) = 3
    /\ last.out.value[1].id = "conversation_tutor"
    /\ last.out.value[2] = DefaultTemplates[6]
    /\ last.out.value[3].id = "custom_note"

\* the placeholders of a body, whatever their names
Placeholders(body) == {body[i].v : i \in {j \in 1..Len(body) : body[j].k = "ph"}}

Declared(template) ==
    IF Has(template, "variables")
    THEN {template.variables[i] : i \in 1..Len(template.variables)} ELSE {}

Reports(errors, message) == \E i \in 1..Len(errors) : errors[i].message = message

\* C16: validateTemplate returns a list and does not throw, whatever the
\* template; the list has an error for a missing or blank id, name or body,
\* for variables that are no array and for every placeholder of the body that
\* is not declared; and it is empty exactly when none of these is the case.
C16_ValidateReportsAll ==
    last.op = "validateTemplate" =>
        LET t == last.template
            noId == ~Has(t, "id") \/ t.id \in {"", " "}
            noName == ~Has(t, "name") \/ t.name \in {"", " "}
            noBody == ~Has(t, "template") \/ t.template = <<>> \/ Blank(t.template)
            noArray == ~Has(t, "variables")
            undeclared == IF Has(t, "template") THEN Placeholders(t.template) \ Declared(t) ELSE {}
        IN  /\ last.out.ok
            /\ noId <=> Reports(last.out.value, "Template ID is required")
            /\ noName <=> Reports(last.out.value, "Template name is required")
            /\ noBody <=> Reports(last.out.value, "Template content is required")
            /\ noArray <=> Reports(last.out.value, "Template variables must be an array")
            /\ \A x \in undeclared :
                  \E i \in 1..Len(last.out.value) :
                      \E j \in 1..Len(last.out.value[i].variables) :
                          last.out.value[i].variables[j] = x
            /\ (last.out.value = <<>>) <=>
                  ~(noId \/ noName \/ noBody \/ noArray \/ undeclared # {})

\* validateTemplate has something to say against the template, or throws
Invalid(template) == ValidateTemplate(template) # Ok(<<>>)

\* C17: neither addTemplate nor renderTemplate validates.  A template that
\* validateTemplate objects to is stored by addTemplate and returned by
\* getTemplate; renderTemplate never refuses it for its errors: it returns the
\* body with the declared variables substituted and every undeclared
\* placeholder left as it is, unless the substitution itself throws.
C17_NoValidationOnUse ==
    /\ (last.op = "add" /\ Invalid(last.template)) =>
          /\ last.out.ok
          /\ GetTemplate(templates, last.template.id) = last.template
    /\ (last.op = "get" /\ MapHas(templates, last.id)) =>
          last.out = Ok(MapGet(templates, last.id))
    /\ (last.op = "render" /\ MapHas(templates, last.id)
          /\ Invalid(MapGet(templates, last.id))) =>
          /\ ~last.out.ok => last.out.error \in {TypeError, SyntaxError}
          /\ last.out.ok =>
                \A x \in Placeholders(MapGet(templates, last.id).template)
                            \ Declared(MapGet(templates, last.id)) :
                    Occurs(<<Ph(x)>>, last.out.value)

C17_Witness ==
    /\ last.op = "render"
    /\ last.id = "custom_note"
    /\ MapHas(templates, last.id)
    /\ Invalid(MapGet(templates, last.id))
    /\ last.out.ok
    /\ Occurs(<<Lit("note: "), Lit("n.b."), Lit(" see "), Ph("missing")>>, last.out.value)

\* C18: a render call for an id that is not registered fails with an error
\* that reaches the caller as a 4xx response, never as a 5xx one.
C18_NotFoundIsBadRequest ==
    (last.op = "render" /\ ~MapHas(templates, last.id)) =>
        /\ ~last.out.ok
        /\ FilterStatus(last.out.error) \in 400..499

C20_ReadOnlyStructures ==
    /\ [][last'.op \in OrchestratorOps \cup {"render"} =>
            (templates' = templates /\ pricing' = pricing)]_vars
    /\ [][templates' # templates => last'.op = "add"]_vars
    /\ [](pricing = Pricing)

\* a tutor call has rendered a template and priced the reply, with templates
\* registered before it
C20_Witness ==
    /\ last.op = "tutor"
    /\ last.out.ok
    /\ Has(last.out.value, "usage")
    /\ last.out.value.cost > 0
    /\ Len(templates) = Len(DefaultTemplates) + 2
    /\ pricing = Pricing

\* no pattern captures anything in the reply and no entry of simpleCorrections
\* is found in the original text
NothingExtractable(reply, originalText) ==
    /\ \A i \in 1..Len(reply.corrected) : reply.corrected[i] = NoText
    /\ \A i \in 1..Len(reply.errorMatches) : reply.errorMatches[i] = <<>>
    /\ \A i \in 1..Len(reply.suggestions) : reply.suggestions[i] = NoText
    /\ \A i \in 1..Len(SimpleCorrections) :
          Occurrences(originalText.words, 1, SimpleCorrections[i].from.words) = 0

\* C21: for a reply without any of the six marker words the extractor returns
\* hasErrors false, the original text, no errors and the looks-correct
\* explanation; for a reply with a marker in which no pattern and no
\* dictionary entry finds anything it returns hasErrors true, the original
\* text, no errors and the apology.
C21_ExtractorClassifies ==
    last.op = "parse" =>
        /\ last.reply.markers = {} =>
              last.out.value = CorrectionResult(FALSE, last.originalText, <<>>, <<LooksCorrect>>)
        /\ (last.reply.markers # {} /\ NothingExtractable(last.reply, last.originalText)) =>
              last.out.value = CorrectionResult(TRUE, last.originalText, <<>>, <<Apology>>)

C23_HealthInEnumerationOrder ==
    /\ health.pc # "idle" => health.validated = Providers
    /\ health.pc = "done" =>
          /\ Len(health.response.providers) = Len(Providers)
          /\ \A i \in 1..Len(Providers) :
                LET check == health.checks[i]
                    entry == health.response.providers[i]
                IN  /\ check.status = "fulfilled" =>
                          entry = [provider |-> Providers[i], status |-> check.value]
                    /\ check.status = "rejected" =>
                          entry = [provider |-> "unknown", status |-> FALSE]
          /\ health.response.overall <=>
                \A i \in 1..Len(Providers) :
                    health.checks[i] = [status |-> "fulfilled", value |-> TRUE]

\* the second validation settled first, and the two settled differently
C23_Witness ==
    /\ health.pc = "done"
    /\ health.order = <<2, 1>>
    /\ health.checks[1] = [status |-> "fulfilled", value |-> TRUE]
    /\ health.checks[2] = [status |-> "fulfilled", value |-> FALSE]

\* C30: with the orchestrator itself, which dispatches to openai only, the
\* response of checkHealth has status false for anthropic and overall false,
\* whatever the backend answered to the test request for openai.
C30_AnthropicNeverHealthy ==
    (health.pc = "done" /\ health.service = "real") =>
        /\ health.response.providers[2] = [provider |-> "anthropic", status |-> FALSE]
        /\ health.response.overall = FALSE

\* the test request for openai succeeded
C30_Witness ==
    /\ health.pc = "done"
    /\ health.service = "real"
    /\ health.response.providers[1] = [provider |-> "openai", status |-> TRUE]

\* the message in the response of a failed request, "" when there is none
UpstreamMessage(error) ==
    IF Has(error, "response") /\ Has(error.response.data, "message")
    THEN error.response.data.message ELSE ""

\* C24: an operation of ConversationsService in which a DB request failed
\* ends with an HttpException that has the status of the upstream response
\* (500 when there was no response) and the upstream message (the message of
\* the error when there was none); an operation whose requests were all
\* answered fails only with the 404 of findOne, when the DB service returned
\* no conversation, or with the generic 500 of the operation.
C24_DbFailuresPassedOn ==
    \A i \in 1..MaxOps :
        ops[i].pc = "done" =>
            LET o == ops[i]
                cause == o.result.error
            IN  /\ ~o.result.ok =>
                      /\ ~o.out.ok
                      /\ o.out.error.type = "HttpException"
                      /\ o.out.error.status =
                            IF Has(cause, "response") THEN cause.response.status ELSE 500
                      /\ o.out.error.message =
                            IF UpstreamMessage(cause) # "" THEN UpstreamMessage(cause)
                            ELSE cause.message
                /\ (o.result.ok /\ ~o.out.ok) =>
                      \/ /\ Program(o.op)[o.at] = "getConversation"
                         /\ o.result.data = Undefined
                         /\ o.out.error.type = "HttpException"
                         /\ o.out.error.status = 404
                      \/ /\ Program(o.op)[o.at] # "getConversation"
                         /\ o.out.error = HttpException(500, FailureMessage(o.op))
                /\ (o.op = "findOne" /\ o.result.ok /\ o.result.data = Undefined) =>
                      (~o.out.ok /\ o.out.error.status = 404)

\* the second request of an addMessage failed with a 503 that carried no
\* message, and a findOne got no conversation
C24_Witness ==
    \E i, j \in 1..MaxOps :
        /\ ops[i].pc = "done" /\ ops[i].op = "addMessage" /\ ops[i].at = 2
        /\ ~ops[i].result.ok /\ Has(ops[i].result.error, "response")
        /\ ~ops[i].out.ok /\ ops[i].out.error.status = 503
        /\ ops[j].pc = "done" /\ ops[j].op = "findOne"
        /\ ops[j].result.ok /\ ~ops[j].out.ok /\ ops[j].out.error.status = 404

\* C26: once no addMessage is in progress, the messageCount of the
\* conversation has been incremented as often as messages have been created
\* for it: each addMessage created a message and incremented the count, or
\* did neither.
C26_CountMatchesMessages ==
    (\A i \in 1..MaxOps : ops[i].pc # "running") => db.increments = db.messages

\* C27: every createMessage and updateConversation request of addMessage and
\* update is sent while the conversation of the request is stored.
C27_NoWriteAfterDelete ==
    \A write \in db.writes : write.stored

\* the body of a template with every placeholder of a declared variable
\* replaced by the value of the variable, as it is
Verbatim(template, context) ==
    Flatten([i \in 1..Len(template.template) |->
        LET token == template.template[i]
        IN  IF token.k = "ph" /\ \E k \in 1..Len(template.variables) : template.variables[k] = token.v
            THEN VariableValue(token.v, context)
            ELSE <<token>>])

Reversed(s) == [i \in 1..Len(s) |-> s[Len(s) + 1 - i]]

\* C25: a render that returns has inserted every value as it is, so a
\* placeholder inside a value is still there, and the same template with its
\* variables declared in the opposite order renders to the same string.
C25_ValuesInsertedVerbatim ==
    (last.op = "render" /\ last.out.ok) =>
        LET template == MapGet(templates, last.id)
        IN  /\ last.out.value = Verbatim(template, last.context)
            /\ last.out = RenderVariables(template.template, Reversed(template.variables),
                                          last.context)

\* C29: a completion whose model is one that getAvailableModels lists for
\* openai and whose usage is not zero has a price in the price table and a
\* cost above 0.
C29_ListedModelsPriced ==
    (/\ last.op = "complete" /\ last.out.ok
     /\ \E k \in 1..Len(GetAvailableModels("openai")) :
            GetAvailableModels("openai")[k] = last.out.value.model
     /\ last.out.value.usage.totalTokens > 0)
    => /\ last.out.value.model \in DOMAIN pricing
       /\ last.out.value.cost > 0

\* C28: a request that passed the interceptor has added one to the request
\* counter and one observation to the duration histogram, whether its
\* handler returned or threw; when the handler returned a completion with
\* usage {promptTokens: p, completionTokens: c}, the token counter of the
\* completion's provider and model has grown by p for type prompt and by c
\* for type completion.
C28_TokensCounted ==
    last.op = "intercept" =>
        /\ Total(metrics.requests) = Total(last.before.requests) + 1
        /\ Total(metrics.durations) = Total(last.before.durations) + 1
        /\ (last.out.ok /\ Has(last.out.value, "usage")) =>
              LET data == last.out.value
                  labels(type) == [provider |-> data.provider, model |-> data.model, type |-> type]
              IN  /\ Count(metrics.tokens, labels("prompt"))
                         = Count(last.before.tokens, labels("prompt")) + data.usage.promptTokens
                  /\ Count(metrics.tokens, labels("completion"))
                         = Count(last.before.tokens, labels("completion"))
                           + data.usage.completionTokens
====
